---------------------------- MODULE Spec2Model ----------------------------
(***************************************************************************)
(* Model of the movie-filename normaliser of python_cine_sort              *)
(* (src/utils/movie_filename_util.py).                                     *)
(*                                                                         *)
(* A Python str is a sequence of characters; a character is a TLA+ string. *)
(* CJK characters are written by their pinyin ("zhong" is one character).  *)
(* Python None is the empty sequence wherever the value is a string that   *)
(* the code never leaves empty (a year), and a record of kind "None" where *)
(* the value is an object.  Offsets (match.start(), match.end()) are the   *)
(* 0-based offsets of Python; s[a:b] is SubSeq(s, a + 1, b).               *)
(***************************************************************************)
EXTENDS Integers, Sequences, FiniteSets, TLC

VARIABLES
    config_file, \* the configuration source handed to MovieFileScannerConfig
    config,      \* the MovieFileScannerConfig the scanner holds
    filename,    \* the argument: file_path.stem / the raw filename
    op,          \* the operation that produced the results ("none" before)
    year,        \* result of _extract_year_from_original
    result,      \* result of the operation, a record
    directory,   \* the path handed to scan_directory, with what it holds
    pending,     \* do_movie_sort_from_folder: the movies the loop has yet to take
    html,        \* the argument of parse_movie_search_result / the last fetch result
    calls,       \* the calls made to the scan, the fetch and the parser, in order
    max_retries, \* bypass_douban_verification: the argument max_retries
    attempt,     \* the number of loop iterations begun
    pc,          \* the position of the call: "idle", "loop", "pow", "post", "done"
    log,         \* the requests sent and the nonces computed, in order
    outcome,     \* what the call returned or raised
    cache,       \* the value kept by lru_cache for the arguments of the call
    challenge,   \* calculate_nonce: leading zeros of the digest, per nonce
    difficulty,  \* the argument difficulty
    nonce        \* the local nonce

vars == <<config_file, config, filename, op, year, result, directory, pending, html, calls,
          max_retries, attempt, pc, log, outcome, cache, challenge, difficulty, nonce>>

\* the variables of bypass_douban_verification and of calculate_nonce
net_vars == <<max_retries, attempt, pc, log, outcome, cache>>

pow_vars == <<challenge, difficulty, nonce>>

\* no verification call and no proof of work under way
NoNet ==
    /\ max_retries = 0
    /\ attempt = 0
    /\ pc = "idle"
    /\ log = <<>>
    /\ outcome = [kind |-> "None"]
    /\ cache = [kind |-> "None"]

NoPow ==
    /\ challenge = <<>>
    /\ difficulty = 0
    /\ nonce = 0

\* the variables of the directory scan and of the sort
sort_vars == <<directory, pending, html, calls>>

\* no directory handed over, no call made
NoScan ==
    /\ directory = [kind |-> "None"]
    /\ pending = <<>>
    /\ html = [kind |-> "None"]
    /\ calls = <<>>

None == <<>>

(***************************************************************************)
(* Characters                                                              *)
(***************************************************************************)
Digits == {"0", "1", "2", "3", "4", "5", "6", "7", "8", "9"}

LowerLetters == {"a", "b", "d", "h", "k", "m", "p"}

UpperLetters == {"A", "B", "D", "H", "K", "M", "P"}

\* one character each: 中 字 国 语 粤 双 (CJK, neither upper nor lower case)
CJK == {"zhong", "zi", "guo", "yu", "yue", "shuang"}

\* str.upper() of one character
UpperChar(c) ==
    CASE c = "a" -> "A" [] c = "b" -> "B" [] c = "d" -> "D" [] c = "h" -> "H"
      [] c = "k" -> "K" [] c = "m" -> "M" [] c = "p" -> "P" [] OTHER -> c

\* str.lower() of one character (what re.IGNORECASE compares)
LowerChar(c) ==
    CASE c = "A" -> "a" [] c = "B" -> "b" [] c = "D" -> "d" [] c = "H" -> "h"
      [] c = "K" -> "k" [] c = "M" -> "m" [] c = "P" -> "p" [] OTHER -> c

\* regex \s and the characters str.strip() / str.split() treat as whitespace
IsSpace(c) == c \in {" ", "\t"}

\* regex \d
IsDigit(c) == c \in Digits

\* str.isalnum() of one character
IsAlnum(c) == c \in Digits \cup LowerLetters \cup UpperLetters \cup CJK

\* regex \w
IsWord(c) == IsAlnum(c) \/ c = "_"

\* regex [.\-_]
IsSeparator(c) == c \in {".", "-", "_"}

(***************************************************************************)
(* str primitives                                                          *)
(***************************************************************************)
\* s[a:b] with 0-based offsets
Slice(s, a, b) == SubSeq(s, a + 1, b)

Upper(s) == [i \in 1..Len(s) |-> UpperChar(s[i])]

Lower(s) == [i \in 1..Len(s) |-> LowerChar(s[i])]

\* s.startswith(t, i) with a 0-based offset i
StartsAt(s, t, i) == i + Len(t) <= Len(s) /\ Slice(s, i, i + Len(t)) = t

\* t in s
Contains(s, t) == \E i \in 0..(Len(s) - Len(t)) : StartsAt(s, t, i)

\* number of leading / trailing characters of s that are in the set cs
LeadCount(s, cs) ==
    IF \A i \in 1..Len(s) : s[i] \in cs THEN Len(s)
    ELSE (CHOOSE i \in 1..Len(s) : s[i] \notin cs /\ \A j \in 1..(i - 1) : s[j] \in cs) - 1

TrailCount(s, cs) ==
    IF \A i \in 1..Len(s) : s[i] \in cs THEN Len(s)
    ELSE Len(s) - (CHOOSE i \in 1..Len(s) : s[i] \notin cs /\ \A j \in (i + 1)..Len(s) : s[j] \in cs)

\* s.strip(chars)
StripChars(s, cs) ==
    IF LeadCount(s, cs) = Len(s) THEN <<>>
    ELSE SubSeq(s, LeadCount(s, cs) + 1, Len(s) - TrailCount(s, cs))

Whitespace == {" ", "\t"}

\* s.strip()
Strip(s) == StripChars(s, Whitespace)

RECURSIVE SplitOn(_, _, _)
\* s.split(sep) for a one-character sep: the list of fields, empty ones kept
SplitOn(s, sep, cur) ==
    IF s = <<>> THEN <<cur>>
    ELSE IF Head(s) = sep THEN <<cur>> \o SplitOn(Tail(s), sep, <<>>)
    ELSE SplitOn(Tail(s), sep, Append(cur, Head(s)))

Split(s, sep) == SplitOn(s, sep, <<>>)

DigitVal(c) ==
    CASE c = "0" -> 0 [] c = "1" -> 1 [] c = "2" -> 2 [] c = "3" -> 3 [] c = "4" -> 4
      [] c = "5" -> 5 [] c = "6" -> 6 [] c = "7" -> 7 [] c = "8" -> 8 [] c = "9" -> 9

RECURSIVE DecimalValue(_, _)
DecimalValue(s, acc) ==
    IF s = <<>> THEN acc ELSE DecimalValue(Tail(s), 10 * acc + DigitVal(Head(s)))

\* int(s): surrounding whitespace is accepted and ignored
IntOf(s) == DecimalValue(Strip(s), 0)


(***************************************************************************)
(* Regular expressions.  A pattern is a record; PatternMatchEnd is         *)
(* re.match at one offset, Sub is re.sub(pattern, ' ', s).                 *)
(*   literal      text, or \btext\b when bounded                           *)
(*   digits_then  \d+[class], or \b\d+[class]\b when bounded               *)
(*   bracket      \[[^\]]*\]                                               *)
(*   run          [class]+                                                 *)
(*   year         (?:^|\s)(19|20)\d{2}(?:$|\s)                             *)
(***************************************************************************)
\* \b at offset k
WordBoundary(s, k) ==
    LET before == k > 0 /\ IsWord(s[k])
        after  == k < Len(s) /\ IsWord(s[k + 1])
    IN  before # after

\* re.IGNORECASE compares case-folded characters
Fold(s, ic) == IF ic THEN Lower(s) ELSE s

RECURSIVE RunEnd(_, _, _)
\* the offset after the longest run of characters of cs that starts at offset i
RunEnd(s, i, cs) == IF i < Len(s) /\ s[i + 1] \in cs THEN RunEnd(s, i + 1, cs) ELSE i

RECURSIVE FindChar(_, _, _)
\* s.find(c, i): the offset of the first c at or after offset i, -1 when none
FindChar(s, c, i) ==
    IF i >= Len(s) THEN -1 ELSE IF s[i + 1] = c THEN i ELSE FindChar(s, c, i + 1)

(***************************************************************************)
(* _extract_year_from_original                                             *)
(***************************************************************************)
MinYear == 1900

MaxYear == 2030

\* (19|20)\d{2} at offset i
YearDigitsAt(s, i) ==
    /\ i + 4 <= Len(s)
    /\ \/ s[i + 1] = "1" /\ s[i + 2] = "9"
       \/ s[i + 1] = "2" /\ s[i + 2] = "0"
    /\ IsDigit(s[i + 3])
    /\ IsDigit(s[i + 4])

\* the delimiters of the year pattern: \s, and '.' in the pattern for raw names
YearDelims(dot) == IF dot THEN Whitespace \cup {"."} ELSE Whitespace

\* (?:$|\s|\.) at offset j: the offset after it, -1 when it does not match
YearSuffixEnd(s, j, dot) ==
    IF j = Len(s) THEN j
    ELSE IF s[j + 1] \in YearDelims(dot) THEN j + 1
    ELSE -1

\* (?:^|\s|\.)(19|20)\d{2}(?:$|\s|\.) tried at offset i: match.end(), or -1
YearMatchEnd(s, i, dot) ==
    IF i = 0 /\ YearDigitsAt(s, 0) /\ YearSuffixEnd(s, 4, dot) >= 0
    THEN YearSuffixEnd(s, 4, dot)
    ELSE IF i < Len(s) /\ s[i + 1] \in YearDelims(dot) /\ YearDigitsAt(s, i + 1)
    THEN YearSuffixEnd(s, i + 5, dot)
    ELSE -1

RECURSIVE YearMatchesFrom(_, _)
\* re.finditer: leftmost matches, each search resuming where the last match ended
YearMatchesFrom(s, pos) ==
    IF pos >= Len(s) THEN <<>>
    ELSE LET e == YearMatchEnd(s, pos, TRUE)
         IN  IF e >= 0
             THEN <<[start |-> pos, end |-> e]>> \o YearMatchesFrom(s, e)
             ELSE YearMatchesFrom(s, pos + 1)

YearMatches(s) == YearMatchesFrom(s, 0)

\* year_str = match.group().strip('. ')
YearStr(s, m) == StripChars(Slice(s, m.start, m.end), {".", " "})

\* any(indicator in next_word for indicator in tech_indicators)
HasTechIndicator(word, tech) == \E k \in 1..Len(tech) : Contains(word, tech[k])

\* the body of the loop over the matches: TRUE when the match is appended
IsValidYear(s, m, tech) ==
    LET year_num       == IntOf(YearStr(s, m))
        context_before == Strip(Slice(s, 0, m.start))
        context_after  == Strip(Slice(s, m.end, Len(s)))
        words_before   == Split(context_before, ".")
        words_after    == Split(context_after, ".")
        next_word      == Upper(words_after[1])
    IN  /\ MinYear <= year_num
        /\ year_num <= MaxYear
        /\ IF Len(context_before) > 2 /\ Len(context_after) > 2
           THEN IF Len(words_before[Len(words_before)]) > 1 /\ Len(words_after[1]) > 1
                THEN HasTechIndicator(next_word, tech)
                ELSE TRUE
           ELSE TRUE

ValidYears(s, tech) ==
    SelectSeq(YearMatches(s), LAMBDA m : IsValidYear(s, m, tech))

\* the first of the valid years instead of the last
SelectedYearEarliest(s, valid) == YearStr(s, valid[1])

\* valid_years.sort(key=position, reverse=True); valid_years[0]
SelectedYear(s, valid) ==
    LET top == CHOOSE i \in 1..Len(valid) :
                   \A j \in 1..Len(valid) : valid[j].start <= valid[i].start
    IN  YearStr(s, valid[top])

ExtractYearFromOriginal(s, tech) ==
    LET valid == ValidYears(s, tech)
    IN  IF Len(valid) > 0 THEN SelectedYear(s, valid) ELSE None

(***************************************************************************)
(* re.sub(pattern, ' ', s)                                                 *)
(***************************************************************************)
\* the pattern tried at offset i: the offset after the match, -1 when none
PatternMatchEnd(pat, s, i, ic) ==
    CASE pat.kind = "literal" ->
            LET e == i + Len(pat.text)
            IN  IF /\ e <= Len(s)
                   /\ Fold(Slice(s, i, e), ic) = Fold(pat.text, ic)
                   /\ pat.bounded => (WordBoundary(s, i) /\ WordBoundary(s, e))
                THEN e ELSE -1
      [] pat.kind = "digits_then" ->
            LET d == RunEnd(s, i, Digits)
            IN  IF /\ d > i
                   /\ d < Len(s)
                   /\ Fold(<<s[d + 1]>>, ic) \in {Fold(<<c>>, ic) : c \in pat.class}
                   /\ pat.bounded => (WordBoundary(s, i) /\ WordBoundary(s, d + 1))
                THEN d + 1 ELSE -1
      [] pat.kind = "bracket" ->
            IF i < Len(s) /\ s[i + 1] = "[" /\ FindChar(s, "]", i + 1) >= 0
            THEN FindChar(s, "]", i + 1) + 1 ELSE -1
      [] pat.kind = "run" ->
            IF RunEnd(s, i, pat.class) > i THEN RunEnd(s, i, pat.class) ELSE -1
      [] pat.kind = "year" -> YearMatchEnd(s, i, FALSE)

RECURSIVE SubFrom(_, _, _, _)
SubFrom(pat, s, pos, ic) ==
    IF pos >= Len(s) THEN <<>>
    ELSE LET e == PatternMatchEnd(pat, s, pos, ic)
         IN  IF e > pos
             THEN <<" ">> \o SubFrom(pat, s, e, ic)
             ELSE <<s[pos + 1]>> \o SubFrom(pat, s, pos + 1, ic)

\* re.sub(pat, ' ', s), with flags=re.IGNORECASE when ic
Sub(pat, s, ic) == SubFrom(pat, s, 0, ic)

RECURSIVE SubAll(_, _, _)
\* for pattern in pats: s = re.sub(pattern, ' ', s)
SubAll(pats, s, ic) ==
    IF pats = <<>> THEN s ELSE SubAll(Tail(pats), Sub(Head(pats), s, ic), ic)

\* re.search(pat, s) is not None
Search(pat, s, ic) == \E i \in 0..Len(s) : PatternMatchEnd(pat, s, i, ic) >= 0

SeparatorRun == [kind |-> "run", class |-> {".", "-", "_"}]

SpaceRun == [kind |-> "run", class |-> Whitespace]

ResidualYear == [kind |-> "year"]

\* re.sub(r'\s+', ' ', s)
MergeSpaces(s) == Sub(SpaceRun, s, FALSE)

\* re.sub(r'[\s\-_.]+$', '', s) and re.sub(r'^[\s\-_.]+', '', s)
TrimPunctuation(s) == StripChars(s, Whitespace \cup {"-", "_", "."})

RECURSIVE WordsFrom(_, _)
WordsFrom(s, cur) ==
    IF s = <<>> THEN (IF cur = <<>> THEN <<>> ELSE <<cur>>)
    ELSE IF IsSpace(Head(s))
         THEN (IF cur = <<>> THEN <<>> ELSE <<cur>>) \o WordsFrom(Tail(s), <<>>)
         ELSE WordsFrom(Tail(s), Append(cur, Head(s)))

\* s.split(): the whitespace-delimited words
Words(s) == WordsFrom(s, <<>>)

RECURSIVE Join(_)
\* ' '.join(words)
Join(words) ==
    IF words = <<>> THEN <<>>
    ELSE IF Len(words) = 1 THEN words[1]
    ELSE words[1] \o <<" ">> \o Join(Tail(words))

RECURSIVE ReplaceFrom(_, _, _)
ReplaceFrom(s, old, pos) ==
    IF pos >= Len(s) THEN <<>>
    ELSE IF StartsAt(s, old, pos)
         THEN <<" ">> \o ReplaceFrom(s, old, pos + Len(old))
         ELSE <<s[pos + 1]>> \o ReplaceFrom(s, old, pos + 1)

\* s.replace(old, ' ') for a non-empty old
Replace(s, old) == ReplaceFrom(s, old, 0)

(***************************************************************************)
(* Configuration values.  The YAML document is not part of the sources;    *)
(* the lists are the ones the earlier scanner (movie_file_util.py) carries *)
(* in its code, shortened.                                                 *)
(***************************************************************************)
HD == <<"H", "D">>

BD == <<"B", "D">>

GuoYu == <<"guo", "yu">>

ZhongZi == <<"zhong", "zi">>

GuoYueShuangYu == <<"guo", "yue", "shuang", "yu">>

\* 'HD', 'BD' of tech_indicators
TechIndicators == <<HD, BD>>

\* '中字', '国语', '国粤双语' of subtitle_keywords, in the order of the list
SubtitleKeywords == <<ZhongZi, GuoYu, GuoYueShuangYu>>

\* '国粤双语' of common_subtitle_indicators
CommonSubtitleIndicators == <<GuoYueShuangYu>>

\* r'\d+[pP]', r'\bHD\b', r'\bBD\b' of the technical patterns
TechnicalIdentifiers ==
    << [kind |-> "digits_then", class |-> {"p", "P"}, bounded |-> FALSE],
       [kind |-> "literal", text |-> HD, bounded |-> TRUE],
       [kind |-> "literal", text |-> BD, bounded |-> TRUE] >>

\* r'\b国语\b', r'\b中字\b', r'\b国粤双语\b' of the language patterns
LanguageIdentifiers ==
    << [kind |-> "literal", text |-> GuoYu, bounded |-> TRUE],
       [kind |-> "literal", text |-> ZhongZi, bounded |-> TRUE],
       [kind |-> "literal", text |-> GuoYueShuangYu, bounded |-> TRUE] >>

\* r'\b\d+[pP]\b' of the final technical patterns
FinalTechPatterns ==
    << [kind |-> "digits_then", class |-> {"p", "P"}, bounded |-> TRUE] >>

\* a cleanup rule for bracketed release-group tags: r'\[[^\]]*\]'
CleanupRules == << [kind |-> "bracket"] >>

\* a movie-name rule r'^(.*?)\s*\bHD\b': the text in front of the first HD tag
MovieNameRules == << [kind |-> "before", text |-> HD] >>

DefaultConfig ==
    [ cleanup_rules              |-> CleanupRules,
      movie_name_rules           |-> <<>>,
      technical_identifiers      |-> TechnicalIdentifiers,
      language_identifiers       |-> LanguageIdentifiers,
      final_tech_patterns        |-> FinalTechPatterns,
      tech_indicators            |-> TechIndicators,
      subtitle_keywords          |-> SubtitleKeywords,
      common_subtitle_indicators |-> CommonSubtitleIndicators ]

RuleConfig == [DefaultConfig EXCEPT !.movie_name_rules = MovieNameRules]

(***************************************************************************)
(* _extract_subtitle_segments and _is_subtitle_segment                     *)
(***************************************************************************)
RECURSIVE SegmentsFrom(_, _, _)
SegmentsFrom(s, pos, cur) ==
    IF pos >= Len(s) THEN <<cur>>
    ELSE IF IsSeparator(s[pos + 1])
         THEN <<cur>> \o SegmentsFrom(s, RunEnd(s, pos, {".", "-", "_"}), <<>>)
         ELSE SegmentsFrom(s, pos + 1, Append(cur, s[pos + 1]))

\* re.split(r'[.\-_]+', s)
Segments(s) == SegmentsFrom(s, 0, <<>>)

\* the index in keywords of the first keyword found in part, 0 when none
MatchedKeyword(part, keywords) ==
    IF \E k \in 1..Len(keywords) : Contains(part, keywords[k])
    THEN CHOOSE k \in 1..Len(keywords) :
             /\ Contains(part, keywords[k])
             /\ \A j \in 1..(k - 1) : ~Contains(part, keywords[j])
    ELSE 0

\* re.search(r'(?:19|20)\d{2}', p)
HasYearDigits(p) == \E i \in 0..Len(p) : YearDigitsAt(p, i)

Min(a, b) == IF a < b THEN a ELSE b

Max(a, b) == IF a > b THEN a ELSE b

\* rule 1: the segment is the keyword
IsKeywordItself(segment, keyword) == segment = keyword

\* rule 2: a tech indicator in the upper-cased segment, with the keyword
HasTechWithKeyword(segment, keyword, cfg) ==
    HasTechIndicator(Upper(segment), cfg.tech_indicators) /\ Contains(segment, keyword)

\* rule 3: two or more of the subtitle keywords
HasSeveralKeywords(segment, cfg) ==
    Cardinality({k \in 1..Len(cfg.subtitle_keywords) :
                    Contains(segment, cfg.subtitle_keywords[k])}) >= 2

\* rule 4: latter half of more than 3 parts, a year or a tech indicator in
\* all_parts[max(0, index-2) : min(len(all_parts), index+3)]
IsNearMetadata(all_parts, index, cfg) ==
    /\ index >= Len(all_parts) \div 2
    /\ Len(all_parts) > 3
    /\ \E j \in (Max(0, index - 2) + 1)..Min(Len(all_parts), index + 3) :
           \/ HasYearDigits(all_parts[j])
           \/ HasTechIndicator(Upper(all_parts[j]), cfg.tech_indicators)

\* rule 5: a common indicator inside a longer segment
IsWrappedIndicator(segment, keyword, cfg) ==
    /\ \E k \in 1..Len(cfg.common_subtitle_indicators) :
           cfg.common_subtitle_indicators[k] = keyword
    /\ Len(segment) > Len(keyword)

\* index is the 0-based index of the segment in all_parts
IsSubtitleSegment(segment, keyword, all_parts, index, cfg) ==
    \/ IsKeywordItself(segment, keyword)
    \/ HasTechWithKeyword(segment, keyword, cfg)
    \/ HasSeveralKeywords(segment, cfg)
    \/ IsNearMetadata(all_parts, index, cfg)
    \/ IsWrappedIndicator(segment, keyword, cfg)

\* TRUE when parts[i + 1] is appended to segments_to_remove
IsFlagged(parts, i, cfg) ==
    LET k == MatchedKeyword(parts[i + 1], cfg.subtitle_keywords)
    IN  /\ k > 0
        /\ IsSubtitleSegment(parts[i + 1], cfg.subtitle_keywords[k], parts, i, cfg)

RECURSIVE FlaggedFrom(_, _, _)
FlaggedFrom(parts, i, cfg) ==
    IF i >= Len(parts) THEN <<>>
    ELSE (IF IsFlagged(parts, i, cfg) THEN <<parts[i + 1]>> ELSE <<>>)
         \o FlaggedFrom(parts, i + 1, cfg)

\* the list segments_to_remove, in the order of the filename
ExtractSubtitleSegments(s, cfg) == FlaggedFrom(Segments(s), 0, cfg)

RECURSIVE ReplaceEach(_, _)
\* for segment in subtitle_segments: processed = processed.replace(segment, ' ')
ReplaceEach(processed, segments) ==
    IF segments = <<>> THEN processed
    ELSE ReplaceEach(Replace(processed, Head(segments)), Tail(segments))

\* phase 1 of _process_movie_name
RemoveSubtitleSegments(s, cfg) == ReplaceEach(s, ExtractSubtitleSegments(s, cfg))

(***************************************************************************)
(* _process_movie_name                                                     *)
(***************************************************************************)
\* phase 2: the cleanup rules, applied without re.IGNORECASE
ApplyCleanupRules(s, cfg) == SubAll(cfg.cleanup_rules, s, FALSE)

\* phase 3 without the merging of whitespace runs
NormalizeSeparatorsUnmerged(s) == Strip(Sub(SeparatorRun, s, FALSE))

\* phase 3: separators to spaces, spaces merged, strip()
NormalizeSeparators(s) == Strip(MergeSpaces(Sub(SeparatorRun, s, FALSE)))

\* phases 1 to 3: cleaned_filename
CleanedFilename(s, cfg) ==
    NormalizeSeparators(ApplyCleanupRules(RemoveSubtitleSegments(s, cfg), cfg))

\* re.search(r'^(.*?)\s*\bTEXT\b', s, re.IGNORECASE): the length of group(1),
\* -1 when the rule does not match
RuleGroupLen(rule, s) ==
    LET lit    == [kind |-> "literal", text |-> rule.text, bounded |-> TRUE]
        ok(n)  == \E k \in n..RunEnd(s, n, Whitespace) : PatternMatchEnd(lit, s, k, TRUE) >= 0
    IN  IF \E n \in 0..Len(s) : ok(n)
        THEN CHOOSE n \in 0..Len(s) : ok(n) /\ \A j \in 0..(n - 1) : ~ok(j)
        ELSE -1

RECURSIVE NameByRulesStoppingAtMatch(_, _)
\* phase 4 with the search ended by the first rule that matches, whatever
\* its group holds
NameByRulesStoppingAtMatch(rules, cleaned) ==
    IF rules = <<>> THEN None
    ELSE LET n == RuleGroupLen(Head(rules), cleaned)
         IN  IF n >= 0
             THEN Strip(Slice(cleaned, 0, n))
             ELSE NameByRulesStoppingAtMatch(Tail(rules), cleaned)

RECURSIVE NameByRules(_, _)
\* phase 4: match.group(1).strip() of the first rule that matches with a
\* non-empty group; None when no rule does
NameByRules(rules, cleaned) ==
    IF rules = <<>> THEN None
    ELSE LET n == RuleGroupLen(Head(rules), cleaned)
         IN  IF n >= 0 /\ Strip(Slice(cleaned, 0, n)) # <<>>
             THEN Strip(Slice(cleaned, 0, n))
             ELSE NameByRules(Tail(rules), cleaned)

\* technical identifiers removed with their \b anchors dropped
StripTechnicalUnanchored(s, cfg) ==
    SubAll([k \in 1..Len(cfg.technical_identifiers) |->
               [cfg.technical_identifiers[k] EXCEPT !.bounded = FALSE]], s, TRUE)

\* technical identifiers removed without re.IGNORECASE
StripTechnicalCaseSensitive(s, cfg) == SubAll(cfg.technical_identifiers, s, FALSE)

\* technical identifiers removed with re.IGNORECASE
StripTechnical(s, cfg) == SubAll(cfg.technical_identifiers, s, TRUE)

\* language identifiers removed with re.IGNORECASE
StripLanguage(s, cfg) == SubAll(cfg.language_identifiers, s, TRUE)

RECURSIVE StripFinalTech(_, _)
\* each final pattern removed with re.IGNORECASE, spaces merged after each
StripFinalTech(pats, s) ==
    IF pats = <<>> THEN s
    ELSE StripFinalTech(Tail(pats), MergeSpaces(Sub(Head(pats), s, TRUE)))

\* [word for word in words if len(word) > 1 or word.isalnum()]
KeepWord(word) == Len(word) > 1 \/ \A i \in 1..Len(word) : IsAlnum(word[i])

FilterWords(s) == Join(SelectSeq(Words(s), KeepWord))

\* phase 5: refined_name after the single-character filter
RefinedName(cleaned, cfg) ==
    LET noYear   == Sub(ResidualYear, cleaned, FALSE)
        noTech   == StripTechnical(noYear, cfg)
        noLang   == StripLanguage(noTech, cfg)
        tidy     == Strip(TrimPunctuation(MergeSpaces(noLang)))
        noYear2  == Sub(ResidualYear, tidy, FALSE)
        noFinal  == Strip(StripFinalTech(cfg.final_tech_patterns, noYear2))
    IN  FilterWords(noFinal)

\* the refined name returned even when it is empty
NameWithoutFallback(refined, cleaned) == refined

\* the final fallback of phase 5
NameOrFallback(refined, cleaned) == IF refined # <<>> THEN refined ELSE cleaned

\* the pair when phase 5 returns the refined name without the final fallback
ProcessMovieNameWithoutFallback(s, cfg) ==
    LET cleaned == CleanedFilename(s, cfg)
        byRule  == NameByRules(cfg.movie_name_rules, cleaned)
    IN  [ cleaned_filename |-> cleaned,
          movie_name       |-> IF byRule # None THEN byRule
                               ELSE RefinedName(cleaned, cfg) ]

\* the pair (cleaned_filename, final_movie_name)
ProcessMovieName(s, cfg) ==
    LET cleaned == CleanedFilename(s, cfg)
        byRule  == NameByRules(cfg.movie_name_rules, cleaned)
    IN  [ cleaned_filename |-> cleaned,
          movie_name       |-> IF byRule # None THEN byRule
                               ELSE NameOrFallback(RefinedName(cleaned, cfg), cleaned) ]

(***************************************************************************)
(* extract_movie_info                                                      *)
(***************************************************************************)
NoResult == [kind |-> "None"]

\* extract_movie_info without its two emptiness checks
ExtractMovieInfoUnchecked(s, cfg) ==
    [ kind       |-> "MovieFileInfo",
      movie_name |-> ProcessMovieName(s, cfg).movie_name,
      year       |-> ExtractYearFromOriginal(s, cfg.tech_indicators),
      stem       |-> s ]

\* extract_movie_info with the year taken from the cleaned filename
ExtractMovieInfoYearFromCleaned(s, cfg) ==
    LET p == ProcessMovieName(s, cfg)
    IN  IF p.cleaned_filename = <<>> THEN NoResult
        ELSE IF p.movie_name = <<>> THEN NoResult
        ELSE [ kind       |-> "MovieFileInfo",
               movie_name |-> p.movie_name,
               year       |-> ExtractYearFromOriginal(p.cleaned_filename, cfg.tech_indicators),
               stem       |-> s ]

ExtractMovieInfoOf(s, cfg) ==
    LET y == ExtractYearFromOriginal(s, cfg.tech_indicators)
        p == ProcessMovieName(s, cfg)
    IN  IF p.cleaned_filename = <<>> THEN NoResult
        ELSE IF p.movie_name = <<>> THEN NoResult
        ELSE [ kind       |-> "MovieFileInfo",
               movie_name |-> p.movie_name,
               year       |-> y,
               stem       |-> s ]

(***************************************************************************)
(* MovieFileScannerConfig.__init__ and load_config.  A configuration       *)
(* source is                                                               *)
(*   "none"        no path given (config_file is None)                     *)
(*   "missing"     the path does not exist                                 *)
(*   "unreadable"  the path exists, open() raises                          *)
(*   "malformed"   yaml.safe_load raises                                   *)
(*   "empty"       the document is empty: safe_load returns None           *)
(*   "sequence"    the top level is a list: no key is in it                *)
(*   "mapping"     a mapping with the keys given; extensions_ok is FALSE   *)
(*                 when an entry of 'extensions' is not a string           *)
(***************************************************************************)
ConfigKeys ==
    { "extensions", "cleanup_rules", "year_patterns", "movie_name_rules",
      "technical_identifiers", "language_identifiers", "final_tech_patterns",
      "tech_indicators", "subtitle_keywords", "common_subtitle_indicators" }

\* the values the document gives to its keys
DocumentValue(key) ==
    CASE key = "extensions" -> << <<".", "m", "k", "v">> >>
      [] key = "year_patterns" -> << [kind |-> "year"] >>
      [] OTHER -> RuleConfig[key]

\* the attributes __init__ sets before it looks at the file
EmptyConfig == [key \in ConfigKeys |-> <<>>]

ConfigSources ==
    [kind : {"none", "missing", "unreadable", "malformed", "empty", "sequence"},
     keys : {{}}, extensions_ok : {TRUE}]
    \cup [kind : {"mapping"}, keys : SUBSET ConfigKeys, extensions_ok : BOOLEAN]

\* the source the scanner's configuration of the other specifications came from
LoadedSource == [kind |-> "mapping", keys |-> ConfigKeys, extensions_ok |-> TRUE]

\* config_file and config_file.exists()
SourceExists(src) == src.kind \notin {"none", "missing"}

\* the try block of load_config raises (and the except clause swallows it)
LoadRaises(src) ==
    \/ src.kind \in {"unreadable", "malformed", "empty"}
    \/ src.kind = "mapping" /\ "extensions" \in src.keys /\ ~src.extensions_ok

\* the attributes after load_config
LoadConfig(src) ==
    IF LoadRaises(src) \/ src.kind # "mapping" THEN EmptyConfig
    ELSE [key \in ConfigKeys |-> IF key \in src.keys THEN DocumentValue(key) ELSE <<>>]

\* MovieFileScannerConfig(config_file): the exception raised or the object built
ConstructConfig(src) ==
    IF SourceExists(src)
    THEN [kind |-> "MovieFileScannerConfig", attributes |-> LoadConfig(src),
          warned |-> LoadRaises(src)]
    ELSE [kind |-> "ValueError"]

(***************************************************************************)
(* Inputs: raw filenames put together from pieces.  A name is a token      *)
(* followed by up to Max..Pieces - 1 pieces, a piece being a separator     *)
(* followed by a token; the empty token gives doubled, leading and         *)
(* trailing separators.                                                    *)
(***************************************************************************)
RECURSIVE Concats(_, _)
\* the concatenations of at most n elements of P
Concats(P, n) ==
    IF n = 0 THEN {<<>>}
    ELSE LET shorter == Concats(P, n - 1)
         IN  shorter \cup {p \o q : p \in P, q \in shorter}

NamesOf(toks, seps, n) ==
    {t \o rest : t \in toks, rest \in Concats({sep \o tok : sep \in seps, tok \in toks}, n - 1)}

Y1900 == <<"1", "9", "0", "0">>

Y2030 == <<"2", "0", "3", "0">>

Y2031 == <<"2", "0", "3", "1">>

MaxYearPieces == 4

YearSeps == {<<>>, <<".">>, <<" ">>, <<"\t">>}

YearTokens == {<<>>, Y1900, Y2030, Y2031, BD, <<"m">>, <<"m", "m", "m">>}

YearNames == NamesOf(YearTokens, YearSeps, MaxYearPieces)

MaxNamePieces == 3

NameSeps == {<<>>, <<".">>, <<" ">>, <<"-">>}

NameTokens ==
    { <<>>, Y1900, Y2030, <<"m", "m">>, <<"&">>, <<"h", "d">>, HD,
      <<"7", "2", "0", "p">>, GuoYu, ZhongZi, <<"[", "m", "]">> }

FileNames == NamesOf(NameTokens, NameSeps, MaxNamePieces)

(***************************************************************************)
(* Year extraction applied to raw filenames                                *)
(***************************************************************************)
InitYear ==
    /\ config_file = LoadedSource
    /\ config = DefaultConfig
    /\ filename \in YearNames
    /\ op = "none"
    /\ year = None
    /\ result = NoResult
    /\ NoScan
    /\ NoNet
    /\ NoPow

ExtractYear ==
    /\ op = "none"
    /\ op' = "_extract_year_from_original"
    /\ year' = ExtractYearFromOriginal(filename, config.tech_indicators)
    /\ UNCHANGED <<config_file, config, filename, result>>
    /\ UNCHANGED sort_vars
    /\ UNCHANGED <<net_vars, pow_vars>>

NextYear == ExtractYear

SpecYear == InitYear /\ [][NextYear]_vars

(***************************************************************************)
(* The scanner applied to file stems                                       *)
(***************************************************************************)
Init ==
    /\ config_file = LoadedSource
    /\ config \in {DefaultConfig, RuleConfig}
    /\ filename \in FileNames
    /\ op = "none"
    /\ year = None
    /\ result = NoResult
    /\ NoScan
    /\ NoNet
    /\ NoPow

\* extract_movie_info(file_path), filename being file_path.stem
ExtractMovieInfo ==
    /\ op = "none"
    /\ op' = "extract_movie_info"
    /\ year' = ExtractYearFromOriginal(filename, config.tech_indicators)
    /\ result' = ExtractMovieInfoOf(filename, config)
    /\ UNCHANGED <<config_file, config, filename>>
    /\ UNCHANGED sort_vars
    /\ UNCHANGED <<net_vars, pow_vars>>

\* _process_movie_name(filename); subtitle_segments and after_subtitle are the
\* locals subtitle_segments and processed at the end of phase 1
ProcessName ==
    /\ op = "none"
    /\ op' = "_process_movie_name"
    /\ result' = LET names == ProcessMovieName(filename, config)
                 IN  [ kind              |-> "names",
                       subtitle_segments |-> ExtractSubtitleSegments(filename, config),
                       after_subtitle    |-> RemoveSubtitleSegments(filename, config),
                       cleaned_filename  |-> names.cleaned_filename,
                       movie_name        |-> names.movie_name ]
    /\ UNCHANGED <<config_file, config, filename, year>>
    /\ UNCHANGED sort_vars
    /\ UNCHANGED <<net_vars, pow_vars>>

Next == ExtractMovieInfo \/ ProcessName

Spec == Init /\ [][Next]_vars

(***************************************************************************)
(* Year tokens of a raw filename, as the glossary defines them: four       *)
(* digits (19|20)dd delimited on both sides by the start or end of the     *)
(* string, whitespace or '.'.                                              *)
(***************************************************************************)
IsYearDelim(c) == c \in Whitespace \cup {"."}

\* offsets of the boundary-anchored year tokens of s
BoundaryYearOffsets(s) ==
    { i \in 0..Len(s) :
        /\ YearDigitsAt(s, i)
        /\ i = 0 \/ IsYearDelim(s[i])
        /\ i + 4 = Len(s) \/ IsYearDelim(s[i + 5]) }

YearTextAt(s, i) == Slice(s, i, i + 4)

YearInRange(s, i) ==
    /\ MinYear <= DecimalValue(YearTextAt(s, i), 0)
    /\ DecimalValue(YearTextAt(s, i), 0) <= MaxYear

\* offsets of the boundary-anchored year tokens with a value in [1900, 2030]
CandidateOffsets(s) == {i \in BoundaryYearOffsets(s) : YearInRange(s, i)}

\* offsets of the (19|20)dd runs that touch a non-whitespace, non-'.' character
EmbeddedYearOffsets(s) ==
    { i \in 0..Len(s) :
        /\ YearDigitsAt(s, i)
        /\ \/ i > 0 /\ ~IsYearDelim(s[i])
           \/ i + 4 < Len(s) /\ ~IsYearDelim(s[i + 5]) }

\* the delimited word that follows, and the one that precedes, the token at i
WordAfter(s, i) ==
    IF i + 5 > Len(s) THEN <<>>
    ELSE Slice(s, i + 5, RunEnd(s, i + 5, {s[k] : k \in 1..Len(s)} \ (Whitespace \cup {"."})))

WordBefore(s, i) ==
    IF i < 2 THEN <<>>
    ELSE LET starts == {a \in 0..(i - 1) : \A k \in (a + 1)..(i - 1) : ~IsYearDelim(s[k])}
         IN  Slice(s, CHOOSE a \in starts : \A b \in starts : a <= b, i - 1)

\* the token at i has a tech indicator in the word next to it, on either side
TechAdjacent(s, i, tech) ==
    \/ HasTechIndicator(Upper(WordAfter(s, i)), tech)
    \/ HasTechIndicator(Upper(WordBefore(s, i)), tech)

YearDone == op = "_extract_year_from_original"

InfoDone == op = "extract_movie_info"

NamesDone == op = "_process_movie_name"

(***************************************************************************)
(* C1: extract_movie_info returns None or a record whose movie_name is a   *)
(* non-empty string, whichever path produced the name.                     *)
(***************************************************************************)
C1_MovieNameNeverEmpty ==
    InfoDone =>
        \/ result = NoResult
        \/ result.kind = "MovieFileInfo" /\ result.movie_name # <<>>

\* a record whose name is the final fallback: no rule matched, refinement left nothing
C1_WitnessFallbackRecord ==
    /\ InfoDone
    /\ result.kind = "MovieFileInfo"
    /\ NameByRules(config.movie_name_rules, CleanedFilename(filename, config)) = None
    /\ RefinedName(CleanedFilename(filename, config), config) = <<>>
    /\ result.movie_name = CleanedFilename(filename, config)

(***************************************************************************)
(* C2: a year returned by _extract_year_from_original is a string of       *)
(* exactly 4 digits with a value in [1900, 2030].                          *)
(***************************************************************************)
C2_YearIsFourDigitsInRange ==
    (YearDone /\ year # None) =>
        /\ Len(year) = 4
        /\ \A i \in 1..Len(year) : IsDigit(year[i])
        /\ MinYear <= DecimalValue(year, 0)
        /\ DecimalValue(year, 0) <= MaxYear

(***************************************************************************)
(* C3: of two boundary-anchored in-range years, one next to a tech         *)
(* indicator and the other not, the one next to the tech indicator is      *)
(* returned, whichever comes later.                                        *)
(***************************************************************************)
C3_TechAdjacentYearWins ==
    YearDone =>
        \A i, j \in CandidateOffsets(filename) :
            ( /\ CandidateOffsets(filename) = {i, j}
              /\ i # j
              /\ TechAdjacent(filename, i, config.tech_indicators)
              /\ ~TechAdjacent(filename, j, config.tech_indicators) )
            => year = YearTextAt(filename, i)

(***************************************************************************)
(* C4: of two boundary-anchored in-range years with no tech indicator next *)
(* to either, the later one is returned.                                   *)
(***************************************************************************)
C4_LaterYearWins ==
    YearDone =>
        \A i, j \in CandidateOffsets(filename) :
            ( /\ CandidateOffsets(filename) = {i, j}
              /\ i < j
              /\ ~TechAdjacent(filename, i, config.tech_indicators)
              /\ ~TechAdjacent(filename, j, config.tech_indicators) )
            => year = YearTextAt(filename, j)

(***************************************************************************)
(* C5: year extraction returns null exactly when the raw filename has no   *)
(* boundary-anchored (19|20)dd token with a value in [1900, 2030].         *)
(***************************************************************************)
C5_NullOnlyWithoutCandidate ==
    YearDone => (year = None <=> CandidateOffsets(filename) = {})

(***************************************************************************)
(* C6: a (19|20)dd run that touches a non-whitespace, non-'.' character is *)
(* never the year returned and stays in the movie name, and a separate     *)
(* boundary-anchored year of the same filename is still returned.          *)
(***************************************************************************)
C6_EmbeddedDigitsSurvive ==
    (InfoDone /\ result.kind = "MovieFileInfo") =>
        \A i \in EmbeddedYearOffsets(filename) :
            /\ Contains(result.movie_name, YearTextAt(filename, i))
            /\ result.year # None =>
                   \E j \in CandidateOffsets(filename) : result.year = YearTextAt(filename, j)
            /\ \A j \in CandidateOffsets(filename) :
                   CandidateOffsets(filename) = {j} => result.year = YearTextAt(filename, j)

(***************************************************************************)
(* Construction of the configuration from a source                         *)
(***************************************************************************)
InitConfig ==
    /\ config_file \in ConfigSources
    /\ config = NoResult
    /\ filename = <<>>
    /\ op = "none"
    /\ year = None
    /\ result = NoResult
    /\ NoScan
    /\ NoNet
    /\ NoPow

\* config = MovieFileScannerConfig(config_file)
Construct ==
    /\ op = "none"
    /\ op' = "MovieFileScannerConfig"
    /\ result' = ConstructConfig(config_file)
    /\ config' = IF ConstructConfig(config_file).kind = "ValueError" THEN config
                 ELSE ConstructConfig(config_file).attributes
    /\ UNCHANGED <<config_file, filename, year>>
    /\ UNCHANGED sort_vars
    /\ UNCHANGED <<net_vars, pow_vars>>

NextConfig == Construct

SpecConfig == InitConfig /\ [][NextConfig]_vars

ConfigDone == op = "MovieFileScannerConfig"

(***************************************************************************)
(* Subtitle-segment removal with every character labelled by the index of  *)
(* the segment it came from (0 for separators and for the inserted         *)
(* spaces): the same replacements as RemoveSubtitleSegments, tracked.      *)
(***************************************************************************)
RECURSIVE LabelFrom(_, _, _)
LabelFrom(s, pos, idx) ==
    IF pos >= Len(s) THEN <<>>
    ELSE IF IsSeparator(s[pos + 1])
         THEN LET e == RunEnd(s, pos, {".", "-", "_"})
              IN  [k \in 1..(e - pos) |-> [c |-> s[pos + k], seg |-> 0]]
                  \o LabelFrom(s, e, idx + 1)
         ELSE <<[c |-> s[pos + 1], seg |-> idx]>> \o LabelFrom(s, pos + 1, idx)

\* the characters of s, each with the 1-based index of its segment
Labelled(s) == LabelFrom(s, 0, 1)

CharsOf(ls) == [k \in 1..Len(ls) |-> ls[k].c]

RECURSIVE LabelledReplaceFrom(_, _, _)
LabelledReplaceFrom(ls, old, pos) ==
    IF pos >= Len(ls) THEN <<>>
    ELSE IF StartsAt(CharsOf(ls), old, pos)
         THEN <<[c |-> " ", seg |-> 0]>> \o LabelledReplaceFrom(ls, old, pos + Len(old))
         ELSE <<ls[pos + 1]>> \o LabelledReplaceFrom(ls, old, pos + 1)

RECURSIVE LabelledReplaceEach(_, _)
LabelledReplaceEach(ls, segments) ==
    IF segments = <<>> THEN ls
    ELSE LabelledReplaceEach(LabelledReplaceFrom(ls, Head(segments), 0), Tail(segments))

LabelledRemoval(s, cfg) == LabelledReplaceEach(Labelled(s), ExtractSubtitleSegments(s, cfg))

\* the 1-based indexes of the flagged segments
FlaggedIndexes(s, cfg) ==
    {i + 1 : i \in {k \in 0..(Len(Segments(s)) - 1) : IsFlagged(Segments(s), k, cfg)}}

(***************************************************************************)
(* C7: after subtitle-segment removal nothing of any flagged segment's     *)
(* text remains in the processed filename.                                 *)
(***************************************************************************)
C7_FlaggedSegmentsFullyRemoved ==
    NamesDone =>
        LET left == LabelledRemoval(filename, config)
        IN  /\ CharsOf(left) = result.after_subtitle
            /\ \A k \in 1..Len(left) : left[k].seg \notin FlaggedIndexes(filename, config)

(***************************************************************************)
(* C8: _process_movie_name returns an already cleaned movie name           *)
(* unchanged.                                                              *)
(***************************************************************************)
AnyMatch(pats, s, ic) == \E k \in 1..Len(pats) : Search(pats[k], s, ic)

\* no separators, no junk the cleanup rules target, one space between words,
\* no technical, language or year token
AlreadyCleaned(s, cfg) ==
    /\ s # <<>>
    /\ \A i \in 1..Len(s) : ~IsSeparator(s[i])
    /\ Strip(s) = s
    /\ MergeSpaces(s) = s
    /\ ~AnyMatch(cfg.cleanup_rules, s, FALSE)
    /\ ~AnyMatch(cfg.technical_identifiers, s, TRUE)
    /\ ~AnyMatch(cfg.final_tech_patterns, s, TRUE)
    /\ ~AnyMatch(cfg.language_identifiers, s, TRUE)
    /\ \A k \in 1..Len(cfg.subtitle_keywords) : ~Contains(s, cfg.subtitle_keywords[k])
    /\ ~Search(ResidualYear, s, FALSE)

\* the claim as stated
C8_CleanNameUnchanged ==
    (NamesDone /\ AlreadyCleaned(filename, config)) => result.movie_name = filename

\* every word survives the single-character filter
HasNoIsolatedSymbol(s) == \A k \in 1..Len(Words(s)) : KeepWord(Words(s)[k])

\* C8, amended: _process_movie_name returns an already cleaned movie name
\* unchanged when none of its words is a single non-alphanumeric character
C8_CleanNameWithoutSymbolsUnchanged ==
    (NamesDone /\ AlreadyCleaned(filename, config) /\ HasNoIsolatedSymbol(filename))
        => /\ result.movie_name = filename
           /\ result.cleaned_filename = filename

\* a clean name of several words went through generic refinement unchanged
C8_WitnessCleanName ==
    /\ NamesDone
    /\ AlreadyCleaned(filename, config)
    /\ HasNoIsolatedSymbol(filename)
    /\ Len(Words(filename)) >= 2
    /\ result.movie_name = filename

(***************************************************************************)
(* C9: two filenames that differ only in the letter case of a technical    *)
(* token get the same movie name, the token being stripped in both.        *)
(***************************************************************************)
RECURSIVE ReplaceWithFrom(_, _, _, _)
\* s with new in the place of every occurrence of old that is a whole word
ReplaceWithFrom(s, old, new, pos) ==
    IF pos >= Len(s) THEN <<>>
    ELSE IF StartsAt(s, old, pos) /\ WordBoundary(s, pos) /\ WordBoundary(s, pos + Len(old))
         THEN new \o ReplaceWithFrom(s, old, new, pos + Len(old))
         ELSE <<s[pos + 1]>> \o ReplaceWithFrom(s, old, new, pos + 1)

\* the technical tokens of the inputs, in lower case
TechTokens == {<<"h", "d">>, <<"7", "2", "0", "p">>}

\* the filename with its technical tokens in upper case: hd -> HD, 720p -> 720P
TechUpper(s) ==
    ReplaceWithFrom(ReplaceWithFrom(s, <<"h", "d">>, HD, 0),
                    <<"7", "2", "0", "p">>, <<"7", "2", "0", "P">>, 0)

HasTechTokenWord(s) == \E k \in 1..Len(Words(s)) : Lower(Words(s)[k]) \in TechTokens

\* the movie name is the result of generic refinement
IsRefinedName(s, cfg) ==
    /\ NameByRules(cfg.movie_name_rules, CleanedFilename(s, cfg)) = None
    /\ RefinedName(CleanedFilename(s, cfg), cfg) # <<>>

\* the claim as stated
C9_CaseInsensitiveAndStripped ==
    InfoDone =>
        LET other == ExtractMovieInfoOf(TechUpper(filename), config)
        IN  /\ result.kind = other.kind
            /\ result.kind = "MovieFileInfo" =>
                   /\ result.movie_name = other.movie_name
                   /\ ~HasTechTokenWord(result.movie_name)

\* C9, amended: two filenames that differ only in the letter case of a
\* technical token both get a record or both get none; when the name comes
\* from generic refinement it is the same for both with the token stripped,
\* and when it comes from a movie-name rule or the fallback (text returned
\* unrefined) the two names differ at most in letter case
C9_CaseInsensitive ==
    InfoDone =>
        LET other == ExtractMovieInfoOf(TechUpper(filename), config)
        IN  /\ result.kind = other.kind
            /\ result.kind = "MovieFileInfo" =>
                   /\ Lower(result.movie_name) = Lower(other.movie_name)
                   /\ IsRefinedName(filename, config) =>
                          /\ result.movie_name = other.movie_name
                          /\ ~HasTechTokenWord(result.movie_name)

\* a lower-case token was stripped by generic refinement
C9_WitnessLowerCaseToken ==
    /\ InfoDone
    /\ \E k \in 1..Len(Segments(filename)) : Segments(filename)[k] \in TechTokens
    /\ TechUpper(filename) # filename
    /\ result.kind = "MovieFileInfo"
    /\ IsRefinedName(filename, config)
    /\ ~HasTechTokenWord(result.movie_name)

(***************************************************************************)
(* C10: constructing the configuration from a missing, unreadable or       *)
(* malformed source raises; no configuration object is returned.           *)
(***************************************************************************)
C10_BadSourceRaises ==
    (ConfigDone /\ config_file.kind \in {"none", "missing", "unreadable", "malformed"})
        => result.kind = "ValueError"

(***************************************************************************)
(* C15: the range check is inclusive at both ends: a raw filename whose    *)
(* only boundary-anchored year token is 1900, or is 2030, yields that      *)
(* year; one whose only such token is 2031 yields null.                    *)
(***************************************************************************)
C15_RangeInclusiveAtBothEnds ==
    YearDone =>
        \A i \in BoundaryYearOffsets(filename) :
            BoundaryYearOffsets(filename) = {i} =>
                /\ YearTextAt(filename, i) \in {Y1900, Y2030} => year = YearTextAt(filename, i)
                /\ YearTextAt(filename, i) = Y2031 => year = None

(***************************************************************************)
(* C20: every (19|20)dd token of the raw filename that is delimited on     *)
(* both sides by the start or end of the string, whitespace or '.' is      *)
(* found as a year candidate, also when it shares a delimiter with a       *)
(* neighbouring year token.                                                *)
(***************************************************************************)
\* the token at offset i lies inside one of the matches of re.finditer
IsMatched(s, i) ==
    \E k \in 1..Len(YearMatches(s)) :
        YearMatches(s)[k].start <= i /\ i + 4 <= YearMatches(s)[k].end

C20_EveryYearTokenIsCandidate ==
    YearDone => \A i \in BoundaryYearOffsets(filename) : IsMatched(filename, i)

(***************************************************************************)
(* scan_directory.  The path handed over is missing, a file, or a          *)
(* directory; a directory holds entries in the order the iterator yields   *)
(* them.  An entry is a file or not, has a suffix and a stem, and is       *)
(* nested when it lies in a subdirectory (rglob yields it, iterdir does    *)
(* not).                                                                   *)
(***************************************************************************)
Mp4 == <<".", "m", "p", "4">>

\* the configuration of the scan: the rule lists and the extensions
ScanConfig == [extensions |-> <<Mp4>>] @@ DefaultConfig

\* a movie-name rule without a capture group, r'\bBD\b': match.group(1) raises
GrouplessRule == [kind |-> "nogroup", text |-> BD]

GrouplessRuleConfig == [ScanConfig EXCEPT !.movie_name_rules = <<GrouplessRule>>]

RECURSIVE RuleRaises(_, _)
\* phase 4 raises: a rule without a group matches before any rule returns
RuleRaises(rules, cleaned) ==
    IF rules = <<>> THEN FALSE
    ELSE IF Head(rules).kind = "nogroup"
         THEN \/ Search([kind |-> "literal", text |-> Head(rules).text, bounded |-> TRUE],
                        cleaned, TRUE)
              \/ RuleRaises(Tail(rules), cleaned)
         ELSE LET n == RuleGroupLen(Head(rules), cleaned)
              IN  IF n >= 0 /\ Strip(Slice(cleaned, 0, n)) # <<>> THEN FALSE
                  ELSE RuleRaises(Tail(rules), cleaned)

\* an exception is raised inside the try block of extract_movie_info
ExtractionRaises(stem, cfg) == RuleRaises(cfg.movie_name_rules, CleanedFilename(stem, cfg))

\* MovieFileInfo(movie_name, year, extension, raw_filename) of lines 169-174,
\* None when the name was empty
WithPathFields(info, entry) ==
    IF info = NoResult THEN NoResult
    ELSE [extension |-> Lower(entry.suffix), raw_filename |-> entry.stem \o entry.suffix]
         @@ info

\* extract_movie_info with no try/except around its body
ExtractMovieInfoPropagating(entry, cfg) ==
    IF ExtractionRaises(entry.stem, cfg) THEN [kind |-> "raise"]
    ELSE WithPathFields(ExtractMovieInfoOf(entry.stem, cfg), entry)

\* extract_movie_info(file_path): the record, or None when the body raised
ExtractMovieInfoOfPath(entry, cfg) ==
    IF ExtractionRaises(entry.stem, cfg) THEN NoResult
    ELSE WithPathFields(ExtractMovieInfoOf(entry.stem, cfg), entry)

\* file_path.is_file() and file_path.suffix.lower() in self.config.extensions
IsMovieFile(entry, cfg) ==
    /\ entry.is_file
    /\ \E k \in 1..Len(cfg.extensions) : cfg.extensions[k] = Lower(entry.suffix)

\* directory.rglob('*') or directory.iterdir()
FileIterator(dir) == SelectSeq(dir.entries, LAMBDA e : dir.recursive \/ ~e.nested)

RECURSIVE ScanFiles(_, _, _)
RECURSIVE AfterExtraction(_, _, _, _)
\* if movie_info: movie_files.append(movie_info), and the rest of the loop
AfterExtraction(movie_info, files, cfg, acc) ==
    IF movie_info.kind = "raise" THEN [acc EXCEPT !.kind = "raise"]
    ELSE IF movie_info = NoResult THEN ScanFiles(files, cfg, acc)
    ELSE ScanFiles(files, cfg, [acc EXCEPT !.items = Append(@, movie_info)])

\* the for loop; acc holds movie_files, the entries taken from the iterator
\* and the stems handed to extract_movie_info
ScanFiles(files, cfg, acc) ==
    IF files = <<>> THEN acc
    ELSE IF ~IsMovieFile(Head(files), cfg)
    THEN ScanFiles(Tail(files), cfg, [acc EXCEPT !.examined = Append(@, Head(files))])
    ELSE AfterExtraction(ExtractMovieInfoOfPath(Head(files), cfg), Tail(files), cfg,
                         [acc EXCEPT !.examined   = Append(@, Head(files)),
                                     !.normalized = Append(@, Head(files).stem)])

EmptyScan == [kind |-> "list", items |-> <<>>, examined |-> <<>>, normalized |-> <<>>]

\* scan_directory without its two guards: the iterator raises on such a path
ScanDirectoryUnguarded(dir, cfg) ==
    IF dir.kind # "dir" THEN [EmptyScan EXCEPT !.kind = "raise"]
    ELSE ScanFiles(FileIterator(dir), cfg, EmptyScan)

\* scan_directory(directory, recursive)
ScanDirectoryOf(dir, cfg) ==
    IF dir.kind = "missing" THEN EmptyScan
    ELSE IF dir.kind # "dir" THEN EmptyScan
    ELSE ScanFiles(FileIterator(dir), cfg, EmptyScan)

(***************************************************************************)
(* Inputs of the scan                                                      *)
(***************************************************************************)
MaxFiles == 2

ScanStems == {<<"m", "m">>, <<"[", "m", "]">>, BD}

ScanSuffixes == {Mp4, <<".", "M", "P", "4">>, <<".", "m">>}

ScanEntries ==
    [is_file : {TRUE}, nested : BOOLEAN, suffix : ScanSuffixes, stem : ScanStems]
    \cup [is_file : {FALSE}, nested : {FALSE}, suffix : ScanSuffixes, stem : ScanStems]

RECURSIVE SeqsUpTo(_, _)
\* the sequences of at most n elements of S
SeqsUpTo(S, n) ==
    IF n = 0 THEN {<<>>}
    ELSE SeqsUpTo(S, n - 1) \cup {Append(q, e) : q \in SeqsUpTo(S, n - 1), e \in S}

Directories ==
    [kind : {"missing", "file"}, entries : {<<>>}, recursive : BOOLEAN]
    \cup [kind : {"dir"}, entries : SeqsUpTo(ScanEntries, MaxFiles), recursive : BOOLEAN]

InitScan ==
    /\ config_file = LoadedSource
    /\ config \in {ScanConfig, GrouplessRuleConfig}
    /\ filename = <<>>
    /\ op = "none"
    /\ year = None
    /\ result = NoResult
    /\ directory \in Directories
    /\ pending = <<>>
    /\ html = [kind |-> "None"]
    /\ calls = <<>>
    /\ NoNet
    /\ NoPow

\* scanner.scan_directory(directory, recursive)
ScanDirectory ==
    /\ op = "none"
    /\ op' = "scan_directory"
    /\ result' = ScanDirectoryOf(directory, config)
    /\ UNCHANGED <<config_file, config, filename, year, directory, pending, html, calls>>
    /\ UNCHANGED <<net_vars, pow_vars>>

NextScan == ScanDirectory

SpecScan == InitScan /\ [][NextScan]_vars

ScanDone == op = "scan_directory"

(***************************************************************************)
(* C11: a file whose normalization fails (empty cleaned name, or an        *)
(* exception inside extraction) is skipped without raising, and every      *)
(* other matching file is processed and its record collected.              *)
(***************************************************************************)
\* the normalization of the file fails
NormalizationFails(entry, cfg) ==
    \/ CleanedFilename(entry.stem, cfg) = <<>>
    \/ ExtractionRaises(entry.stem, cfg)

\* the matching files of the directory whose normalization does not fail
GoodFiles(dir, cfg) ==
    SelectSeq(FileIterator(dir),
              LAMBDA e : IsMovieFile(e, cfg) /\ ~NormalizationFails(e, cfg))

C11_BadFileSkippedOthersCollected ==
    (ScanDone /\ directory.kind = "dir") =>
        /\ result.kind = "list"
        /\ Len(result.items) = Len(GoodFiles(directory, config))
        /\ \A k \in 1..Len(result.items) :
               /\ result.items[k].kind = "MovieFileInfo"
               /\ result.items[k].stem = GoodFiles(directory, config)[k].stem
               /\ result.items[k].raw_filename
                      = GoodFiles(directory, config)[k].stem \o GoodFiles(directory, config)[k].suffix
               /\ result.items[k].movie_name # <<>>

\* a matching file whose extraction raised came before a file whose record
\* was collected
C11_WitnessBadFilesThenGood ==
    /\ ScanDone
    /\ result.kind = "list"
    /\ Len(result.items) = 1
    /\ \E i, j \in 1..Len(directory.entries) :
           /\ i < j
           /\ IsMovieFile(directory.entries[i], config)
           /\ ExtractionRaises(directory.entries[i].stem, config)
           /\ result.items[1].stem = directory.entries[j].stem

(***************************************************************************)
(* C12: scan_directory on a path that does not exist or is not a directory *)
(* returns an empty list without raising and without examining or          *)
(* normalizing any file.                                                   *)
(***************************************************************************)
C12_NoDirectoryEmptyList ==
    (ScanDone /\ directory.kind \in {"missing", "file"}) =>
        /\ result.kind = "list"
        /\ result.items = <<>>
        /\ result.examined = <<>>
        /\ result.normalized = <<>>

C12_WitnessPathIsAFile ==
    /\ ScanDone
    /\ directory.kind = "file"
    /\ result = EmptyScan

(***************************************************************************)
(* parse_movie_search_result (douban_search.py).  The argument is None, a  *)
(* value that is no string, or a string.  A string is given by what the    *)
(* patterns of the parser find in it: its result blocks in order, each     *)
(* with the marker '[电影]' or not, the text 'rating_nums' or not, and the  *)
(* group captured by each pattern of the block (NoMatch when the pattern   *)
(* does not match); the links with a movie marker and an href that stand   *)
(* after the blocks (all_titles), and the other links after them.  The     *)
(* title link of a block carries no href.                                  *)
(***************************************************************************)
NoMatch == [kind |-> "None"]

NoneValue == [kind |-> "None"]

Str(s) == [kind |-> "str", text |-> s]

ParseFields ==
    { "title", "rating", "description", "directors", "actors", "year", "genres",
      "original_title", "review_count", "sid", "error" }

\* _create_empty_movie_info(error_message)
CreateEmptyMovieInfo(error_message) ==
    [ title |-> <<>>, rating |-> <<>>, description |-> <<>>, directors |-> <<>>,
      actors |-> <<>>, year |-> <<>>, genres |-> <<>>, original_title |-> <<>>,
      review_count |-> <<>>, sid |-> <<>>, error |-> error_message ]

RECURSIVE RemoveTagsFrom(_, _)
RemoveTagsFrom(s, pos) ==
    IF pos >= Len(s) THEN <<>>
    ELSE IF s[pos + 1] = "<" /\ FindChar(s, ">", pos + 1) >= 0
         THEN RemoveTagsFrom(s, FindChar(s, ">", pos + 1) + 1)
         ELSE <<s[pos + 1]>> \o RemoveTagsFrom(s, pos + 1)

\* re.sub(r'<.*?>', '', s)
RemoveTags(s) == RemoveTagsFrom(s, 0)

RECURSIVE FourDigitRunsFrom(_, _)
FourDigitRunsFrom(s, pos) ==
    IF pos + 4 > Len(s) THEN <<>>
    ELSE IF \A k \in 1..4 : IsDigit(s[pos + k])
         THEN <<Slice(s, pos, pos + 4)>> \o FourDigitRunsFrom(s, pos + 4)
         ELSE FourDigitRunsFrom(s, pos + 1)

\* re.findall(r'(\d{4})', s)
FourDigitRuns(s) == FourDigitRunsFrom(s, 0)

\* '原名:'
OriginalTitleLabel == <<"yuan", "ming", ":">>

\* re.sub(r'^原名:[^/]*/', '', cast_text).strip()
CleanCast(cast_text) ==
    IF StartsAt(cast_text, OriginalTitleLabel, 0) /\ FindChar(cast_text, "/", 3) >= 0
    THEN Strip(Slice(cast_text, FindChar(cast_text, "/", 3) + 1, Len(cast_text)))
    ELSE Strip(cast_text)

\* [part.strip() for part in clean_cast.split('/') if part.strip()]
CastParts(clean_cast) ==
    LET fields == Split(clean_cast, "/")
        kept   == SelectSeq(fields, LAMBDA p : Strip(p) # <<>>)
    IN  [k \in 1..Len(kept) |-> Strip(kept[k])]

\* re.match(r'^\d{4}$', part)
IsFourDigits(part) == Len(part) = 4 /\ \A k \in 1..4 : IsDigit(part[k])

RECURSIVE ActorsFrom(_)
\* the parts in front of the first year
ActorsFrom(parts) ==
    IF parts = <<>> \/ IsFourDigits(Head(parts)) THEN <<>>
    ELSE <<Head(parts)>> \o ActorsFrom(Tail(parts))

MaxActors == 5

MaxDescription == 200

\* the fields set from the subject-cast span
WithCast(movie_info, cast) ==
    IF cast = NoMatch THEN movie_info
    ELSE LET cast_text    == Strip(RemoveTags(cast.text))
             year_matches == FourDigitRuns(cast_text)
             parts        == CastParts(CleanCast(cast_text))
             withYear     == IF year_matches # <<>>
                             THEN [movie_info EXCEPT !.year = year_matches[Len(year_matches)]]
                             ELSE movie_info
         IN  IF Len(parts) >= 2
             THEN [withYear EXCEPT
                      !.directors = <<parts[1]>>,
                      !.actors = SubSeq(ActorsFrom(Tail(parts)), 1,
                                        Min(MaxActors, Len(ActorsFrom(Tail(parts)))))]
             ELSE withYear

\* a captured group put into a field, the field left alone without a match
Captured(movie_info, field, match, strip) ==
    IF match = NoMatch THEN movie_info
    ELSE [movie_info EXCEPT ![field] = IF strip THEN Strip(match.text) ELSE match.text]

\* the body of the if over the first valid result block
FromBlock(movie_info, block) ==
    LET a == Captured(movie_info, "title", block.title, TRUE)
        b == Captured(a, "sid", block.sid, FALSE)
        c == Captured(b, "rating", block.rating, FALSE)
        d == Captured(c, "review_count", block.review_count, FALSE)
        e == Captured(d, "original_title", block.original_title, TRUE)
        f == WithCast(e, block.cast)
    IN  IF block.description = NoMatch THEN f
        ELSE LET desc_text == Strip(RemoveTags(block.description.text))
             IN  [f EXCEPT !.description =
                      SubSeq(desc_text, 1, Min(MaxDescription, Len(desc_text)))]

\* '[电影]' in result_block and 'rating_nums' in result_block
IsValidBlock(block) == block.marker /\ block.rating_nums

RECURSIVE FromBlocks(_, _)
\* the for loop over result_blocks, left at the first valid block
FromBlocks(movie_info, blocks) ==
    IF blocks = <<>> THEN movie_info
    ELSE IF IsValidBlock(Head(blocks)) THEN FromBlock(movie_info, Head(blocks))
    ELSE FromBlocks(movie_info, Tail(blocks))

\* '可播放', '预告', '花絮', '回顶部', '↑', '&#8593;'
NotTitleKeywords ==
    << <<"ke", "bo", "fang">>, <<"yu", "gao">>, <<"hua", "xu">>,
       <<"hui", "ding", "bu">>, <<"^">>, <<"&", "#", "8", "5", "9", "3", ";">> >>

RECURSIVE FirstSimpleTitle(_)
\* the loop over simple_matches: the first text kept, '' when none
FirstSimpleTitle(simple_matches) ==
    IF simple_matches = <<>> THEN <<>>
    ELSE LET title_text == Strip(Head(simple_matches))
         IN  IF /\ title_text # <<>>
                /\ \A k \in 1..Len(NotTitleKeywords) : ~Contains(title_text, NotTitleKeywords[k])
             THEN title_text
             ELSE FirstSimpleTitle(Tail(simple_matches))

\* re.findall(simple_title_pattern, html_content): the link texts of 2 to 50
\* characters, in the order of the text
SimpleMatches(doc) ==
    LET block_titles == SelectSeq([k \in 1..Len(doc.blocks) |-> doc.blocks[k].title],
                                  LAMBDA m : m # NoMatch)
        links        == [k \in 1..Len(block_titles) |-> block_titles[k].text]
                        \o doc.all_titles \o doc.other_links
    IN  SelectSeq(links, LAMBDA s : Len(s) >= 2 /\ Len(s) <= 50)

\* the fallback for a title still empty
WithFallbackTitle(movie_info, doc) ==
    IF movie_info.title # <<>> THEN movie_info
    ELSE LET first == IF doc.all_titles # <<>>
                      THEN [movie_info EXCEPT !.title = Strip(doc.all_titles[1])]
                      ELSE movie_info
         IN  IF first.title # <<>> THEN first
             ELSE [first EXCEPT !.title = FirstSimpleTitle(SimpleMatches(doc))]

\* parse_movie_search_result with the two validations and the try left out
ParseMovieSearchResultUnguarded(html_content) ==
    IF html_content.kind # "str" THEN [kind |-> "raise"]
    ELSE WithFallbackTitle(
             FromBlocks(CreateEmptyMovieInfo(NoneValue), html_content.text.blocks),
             html_content.text)

\* parse_movie_search_result(html_content)
ParseMovieSearchResult(html_content) ==
    IF html_content.kind = "None"
    THEN CreateEmptyMovieInfo(Str("Parsing error: HTML content is empty"))
    ELSE IF html_content.kind # "str"
    THEN CreateEmptyMovieInfo(Str("Parsing error: Expected string type, got int"))
    ELSE WithFallbackTitle(
             FromBlocks(CreateEmptyMovieInfo(NoneValue), html_content.text.blocks),
             html_content.text)

(***************************************************************************)
(* Inputs of the parser                                                    *)
(***************************************************************************)
MaxBlocks == 2

\* '原名:x / <b>d</b> / a / 2020'
CastWithOriginal ==
    OriginalTitleLabel
    \o <<"x", " ", "/", " ", "<", "b", ">", "d", "<", "/", "b", ">", " ", "/", " ", "a",
         " ", "/", " ", "2", "0", "2", "0">>

\* 'd': a director and nothing else
CastOfOne == <<"d">>

\* '20201/a/b/c/e/f/g': seven parts after the first, no part that is a year
CastOfMany ==
    <<"2", "0", "2", "0", "1", "/", "a", "/", "b", "/", "c", "/", "e", "/", "f", "/",
      "g", "/", "h">>

BlockDetails ==
    { [sid |-> NoMatch, rating |-> NoMatch, review_count |-> NoMatch,
       original_title |-> NoMatch, description |-> NoMatch],
      [sid |-> Str(<<"1", "2">>), rating |-> Str(<<"9", ".", "1">>),
       review_count |-> Str(<<"3">>), original_title |-> Str(<<"x", " ">>),
       description |-> Str(<<" ", "<", "i", ">", "p", "<", "/", "i", ">">>)] }

\* the pattern for the original title finds the label of the cast, too
ValidBlocks ==
    { [marker |-> TRUE, rating_nums |-> TRUE, title |-> t, cast |-> c,
       original_title |-> IF c = Str(CastWithOriginal) THEN Str(<<"x", " ">>)
                          ELSE d.original_title] @@ d :
        t \in {NoMatch, Str(<<" ">>), Str(<<"t", "1", " ">>)},
        c \in {NoMatch, Str(CastWithOriginal), Str(CastOfOne), Str(CastOfMany)},
        d \in BlockDetails }

\* blocks the loop passes over: no rating, or no movie marker
OtherBlocks ==
    { [marker |-> mk, rating_nums |-> ~mk, title |-> NoMatch, cast |-> NoMatch] @@ d :
        mk \in BOOLEAN, d \in {x \in BlockDetails : x.sid = NoMatch} }

Documents ==
    [ blocks         : SeqsUpTo(ValidBlocks \cup OtherBlocks, MaxBlocks),
      all_titles     : {<<>>, << <<" ">> >>, << <<"t", "2">>, <<"t", "3">> >>},
      other_links    : {<<>>, << <<" ", " ">>, <<"yu", "gao", "t">>, <<"t", "4", " ">> >>,
                        << <<"hua", "xu">> >>} ]

HtmlValues == {NoneValue, [kind |-> "int"]} \cup {Str(doc) : doc \in Documents}

InitParse ==
    /\ config_file = LoadedSource
    /\ config = DefaultConfig
    /\ filename = <<>>
    /\ op = "none"
    /\ year = None
    /\ result = NoResult
    /\ directory = [kind |-> "None"]
    /\ pending = <<>>
    /\ html \in HtmlValues
    /\ calls = <<>>
    /\ NoNet
    /\ NoPow

\* parse_movie_search_result(html)
Parse ==
    /\ op = "none"
    /\ op' = "parse_movie_search_result"
    /\ result' = ParseMovieSearchResult(html)
    /\ UNCHANGED <<config_file, config, filename, year, directory, pending, html, calls>>
    /\ UNCHANGED <<net_vars, pow_vars>>

NextParse == Parse

SpecParse == InitParse /\ [][NextParse]_vars

ParseDone == op = "parse_movie_search_result"

(***************************************************************************)
(* C14: parse_movie_search_result never raises: for None or a non-string   *)
(* it returns a record with every field empty and a non-empty diagnostic   *)
(* in 'error'; for a string it returns a record with the full field set,   *)
(* each field extracted or left at its empty default.                      *)
(***************************************************************************)
\* the groups the patterns capture for a field, over the valid blocks
BlockCaptures(doc, field) ==
    { doc.blocks[k][field].text :
        k \in {j \in 1..Len(doc.blocks) :
                  IsValidBlock(doc.blocks[j]) /\ doc.blocks[j][field] # NoMatch} }

TitleCaptures(doc) ==
    BlockCaptures(doc, "title")
    \cup {doc.all_titles[k] : k \in 1..Len(doc.all_titles)}
    \cup {doc.other_links[k] : k \in 1..Len(doc.other_links)}

C14_ParseNeverRaises ==
    ParseDone =>
        /\ DOMAIN result = ParseFields
        /\ html.kind # "str" =>
               /\ \A f \in ParseFields \ {"error"} : result[f] = <<>>
               /\ result.error.kind = "str"
               /\ result.error.text # ""
        /\ html.kind = "str" =>
               /\ result.error = NoneValue
               /\ result.genres = <<>>
               /\ result.title \in {<<>>} \cup {Strip(c) : c \in TitleCaptures(html.text)}
               /\ \A f \in {"sid", "rating", "review_count"} :
                      result[f] \in {<<>>} \cup BlockCaptures(html.text, f)
               /\ result.original_title
                      \in {<<>>} \cup {Strip(c) : c \in BlockCaptures(html.text, "original_title")}
               /\ Len(result.directors) <= 1
               /\ Len(result.actors) <= MaxActors
               /\ Len(result.description) <= MaxDescription
               /\ Len(result.year) \in {0, 4}

\* a string whose first valid block came after a block passed over: the year
\* and the director were taken from the cast, the title from the fallback
C14_WitnessFieldsExtracted ==
    /\ ParseDone
    /\ html.kind = "str"
    /\ Len(html.text.blocks) = 2
    /\ ~IsValidBlock(html.text.blocks[1])
    /\ html.text.blocks[2].title = Str(<<" ">>)
    /\ result.year = <<"2", "0", "2", "0">>
    /\ result.directors = << <<"d">> >>
    /\ result.actors = << <<"a">> >>
    /\ result.description = <<"p">>
    /\ result.title = <<"t", "2">>

(***************************************************************************)
(* do_movie_sort_from_folder (movie_sort_util.py): the scan, then for each *)
(* movie the fetch and the parser.  The fetch is the collaborator          *)
(* get_movie_search_result_html: it returns None or a string, whichever    *)
(* the network gives.  calls records every call with its arguments and     *)
(* what it returned.                                                       *)
(***************************************************************************)
EmptyDocument == [blocks |-> <<>>, all_titles |-> <<>>, other_links |-> <<>>]

FoundDocument ==
    [ blocks |-> << [marker |-> TRUE, rating_nums |-> TRUE, title |-> Str(<<"t", "1", " ">>),
                     cast |-> Str(CastWithOriginal), sid |-> Str(<<"1", "2">>),
                     rating |-> Str(<<"9", ".", "1">>), review_count |-> Str(<<"3">>),
                     original_title |-> Str(<<"x", " ">>), description |-> NoMatch] >>,
      all_titles |-> <<>>, other_links |-> <<>> ]

\* what get_movie_search_result_html can return
FetchResults == {NoneValue, Str(EmptyDocument), Str(FoundDocument)}

Folders == {dir \in Directories : dir.recursive}

InitSort ==
    /\ config_file = LoadedSource
    /\ config = ScanConfig
    /\ filename = <<>>
    /\ op = "none"
    /\ year = None
    /\ result = NoResult
    /\ directory \in Folders
    /\ pending = <<>>
    /\ html = NoneValue
    /\ calls = <<>>
    /\ NoNet
    /\ NoPow

\* the loop goes on with the next movie, or the function returns
AfterMovies(movies) == IF movies = <<>> THEN "do_movie_sort_from_folder" ELSE "fetch"

\* movies = scanner.scan_directory(Path(folder_path))
SortScan ==
    /\ op = "none"
    /\ LET scanned == ScanDirectoryOf(directory, config)
       IN  /\ pending' = scanned.items
           /\ calls' = Append(calls, [fn |-> "scan_directory", args |-> <<directory>>,
                                      returned |-> scanned.items])
           /\ op' = AfterMovies(scanned.items)
    /\ UNCHANGED <<config_file, config, filename, year, result, directory, html>>
    /\ UNCHANGED <<net_vars, pow_vars>>

\* result_html = get_movie_search_result_html(movie.movie_name, movie.year)
SortFetch ==
    /\ op = "fetch"
    /\ \E returned \in FetchResults :
           /\ html' = returned
           /\ calls' = Append(calls, [fn |-> "get_movie_search_result_html",
                                      args |-> <<Head(pending).movie_name, Head(pending).year>>,
                                      returned |-> returned])
    /\ op' = "parse"
    /\ UNCHANGED <<config_file, config, filename, year, result, directory, pending>>
    /\ UNCHANGED <<net_vars, pow_vars>>

\* the parser called only when the fetch returned something
SortParseIfHtml ==
    /\ op = "parse"
    /\ result' = IF html = NoneValue THEN result ELSE ParseMovieSearchResult(html)
    /\ calls' = IF html = NoneValue THEN calls
                ELSE Append(calls, [fn |-> "parse_movie_search_result", args |-> <<html>>,
                                    returned |-> ParseMovieSearchResult(html)])
    /\ pending' = Tail(pending)
    /\ op' = AfterMovies(Tail(pending))
    /\ UNCHANGED <<config_file, config, filename, year, directory, html>>
    /\ UNCHANGED <<net_vars, pow_vars>>

\* movie_info = parse_movie_search_result(result_html), and the end of the
\* loop body
SortParse ==
    /\ op = "parse"
    /\ result' = ParseMovieSearchResult(html)
    /\ calls' = Append(calls, [fn |-> "parse_movie_search_result", args |-> <<html>>,
                               returned |-> ParseMovieSearchResult(html)])
    /\ pending' = Tail(pending)
    /\ op' = AfterMovies(Tail(pending))
    /\ UNCHANGED <<config_file, config, filename, year, directory, html>>
    /\ UNCHANGED <<net_vars, pow_vars>>

NextSort == SortScan \/ SortFetch \/ SortParse

SpecSort == InitSort /\ [][NextSort]_vars

SortDone == op = "do_movie_sort_from_folder"

(***************************************************************************)
(* C13: do_movie_sort_from_folder scans once and then, for each movie in   *)
(* the order of the scan, calls the fetch once with (movie_name, year) and *)
(* afterwards the parser once with exactly what that fetch returned, None  *)
(* included; the fetch calls and the parse calls are as many as the        *)
(* scanned movies.                                                         *)
(***************************************************************************)
CallsOf(fn) == SelectSeq(calls, LAMBDA c : c.fn = fn)

C13_FetchThenParsePerMovie ==
    SortDone =>
        /\ Len(CallsOf("scan_directory")) = 1
        /\ calls[1].fn = "scan_directory"
        /\ LET movies == calls[1].returned
           IN  /\ Len(calls) = 1 + 2 * Len(movies)
               /\ Len(CallsOf("get_movie_search_result_html")) = Len(movies)
               /\ Len(CallsOf("parse_movie_search_result")) = Len(movies)
               /\ \A k \in 1..Len(movies) :
                      /\ calls[2 * k].fn = "get_movie_search_result_html"
                      /\ calls[2 * k].args = <<movies[k].movie_name, movies[k].year>>
                      /\ calls[2 * k + 1].fn = "parse_movie_search_result"
                      /\ calls[2 * k + 1].args = <<calls[2 * k].returned>>

\* two movies, the first fetch returned None and the parser was called with it
C13_WitnessParseAfterFailedFetch ==
    /\ SortDone
    /\ Len(calls) = 5
    /\ calls[2].returned = NoneValue
    /\ calls[3].args = <<NoneValue>>
    /\ calls[4].returned.kind = "str"

(***************************************************************************)
(* _extract_subtitle_segments applied to raw filenames of up to            *)
(* MaxSegmentPieces segments                                               *)
(***************************************************************************)
GuoYuZhongZi == GuoYu \o ZhongZi

\* a keyword list in which one keyword contains others, as '日语中字'
\* contains '中字'; the longer keyword is a common indicator
NestedKeywordConfig ==
    [DefaultConfig EXCEPT
        !.subtitle_keywords = <<ZhongZi, GuoYu, GuoYueShuangYu, GuoYuZhongZi>>,
        !.common_subtitle_indicators = <<GuoYueShuangYu, GuoYuZhongZi>>]

MaxSegmentPieces == 5

SegmentTokens ==
    { <<"m", "m">>, Y1900, HD, ZhongZi, <<"m">> \o ZhongZi, HD \o ZhongZi,
      GuoYuZhongZi, GuoYueShuangYu \o <<"m">>, Y1900 \o ZhongZi }

SegmentNames == NamesOf(SegmentTokens, {<<".">>}, MaxSegmentPieces)

InitSegments ==
    /\ config_file = LoadedSource
    /\ config \in {DefaultConfig, NestedKeywordConfig}
    /\ filename \in SegmentNames
    /\ op = "none"
    /\ year = None
    /\ result = NoResult
    /\ NoScan
    /\ NoNet
    /\ NoPow

\* self._extract_subtitle_segments(filename)
ExtractSegments ==
    /\ op = "none"
    /\ op' = "_extract_subtitle_segments"
    /\ result' = [kind |-> "segments", items |-> ExtractSubtitleSegments(filename, config)]
    /\ UNCHANGED <<config_file, config, filename, year>>
    /\ UNCHANGED sort_vars
    /\ UNCHANGED <<net_vars, pow_vars>>

NextSegments == ExtractSegments

SpecSegments == InitSegments /\ [][NextSegments]_vars

SegmentsDone == op = "_extract_subtitle_segments"

(***************************************************************************)
(* C16: a segment is flagged for removal if and only if it contains a      *)
(* configured subtitle keyword and one of the five rules holds: it equals  *)
(* the matched keyword; it contains a tech indicator together with the     *)
(* keyword; it contains two or more configured keywords; it stands in the  *)
(* back half with a year or a tech indicator in a neighbouring segment;    *)
(* the matched keyword is a common indicator and the segment is strictly   *)
(* longer.                                                                 *)
(***************************************************************************)
\* the keywords of the configuration the segment contains, by index
KeywordsIn(segment, cfg) ==
    {k \in 1..Len(cfg.subtitle_keywords) : Contains(segment, cfg.subtitle_keywords[k])}

\* the segments other than the one at the 0-based index, within two places
\* of it, by 1-based index
Neighbours(parts, index) ==
    {j \in 1..Len(parts) : j - 1 # index /\ j - 1 >= index - 2 /\ j - 1 <= index + 2}

HasTech(part, cfg) ==
    \E t \in 1..Len(cfg.tech_indicators) : Contains(Upper(part), cfg.tech_indicators[t])

ShouldBeFlagged(parts, index, cfg) ==
    LET segment == parts[index + 1]
        found   == KeywordsIn(segment, cfg)
    IN  /\ found # {}
        /\ LET matched == cfg.subtitle_keywords[CHOOSE k \in found : \A j \in found : k <= j]
           IN  \/ segment = matched
               \/ HasTech(segment, cfg)
               \/ Cardinality(found) >= 2
               \/ /\ 2 * index >= Len(parts) - 1
                  /\ Len(parts) > 3
                  /\ \E j \in Neighbours(parts, index) :
                         HasYearDigits(parts[j]) \/ HasTech(parts[j], cfg)
               \/ /\ \E c \in 1..Len(cfg.common_subtitle_indicators) :
                         cfg.common_subtitle_indicators[c] = matched
                  /\ Len(segment) > Len(matched)

RECURSIVE SegmentsToFlag(_, _, _)
SegmentsToFlag(parts, index, cfg) ==
    IF index >= Len(parts) THEN <<>>
    ELSE (IF ShouldBeFlagged(parts, index, cfg) THEN <<parts[index + 1]>> ELSE <<>>)
         \o SegmentsToFlag(parts, index + 1, cfg)

C16_FlaggedIffKeywordAndRule ==
    SegmentsDone => result.items = SegmentsToFlag(Segments(filename), 0, config)



(***************************************************************************)
(* _process_movie_name under two movie-name rules, applied to stems of up  *)
(* to MaxRulePieces dot-separated pieces                                   *)
(***************************************************************************)
\* movie_name_rules: '^(.*?)\s*\bHD\b' then '^(.*?)\s*\bBD\b'
TwoRules == << [kind |-> "before", text |-> HD], [kind |-> "before", text |-> BD] >>

TwoRuleConfig == [DefaultConfig EXCEPT !.movie_name_rules = TwoRules]

MaxRulePieces == 5

RuleTokens == { <<"m", "m">>, Y1900, HD, BD, <<"&">> }

RuleNames == NamesOf(RuleTokens, {<<".">>}, MaxRulePieces)

InitName ==
    /\ config_file = LoadedSource
    /\ config \in {DefaultConfig, TwoRuleConfig}
    /\ filename \in RuleNames
    /\ op = "none"
    /\ year = None
    /\ result = NoResult
    /\ NoScan
    /\ NoNet
    /\ NoPow

NextName == ProcessName

SpecName == InitName /\ [][NextName]_vars

(***************************************************************************)
(* C17: the movie-name rules are tried in declared order against the       *)
(* cleaned filename; the first rule whose capture, trimmed, is non-empty   *)
(* gives the movie name as it stands, with no later rule and no refinement *)
(* applied to it; a rule that matches with an empty capture does not stop  *)
(* the search.                                                             *)
(***************************************************************************)
\* the offsets at which the text of the rule stands as a word of s, case
\* ignored
RuleOccurrences(rule, s) ==
    {p \in 0..Len(s) : /\ StartsAt(Lower(s), Lower(rule.text), p)
                       /\ WordBoundary(s, p)
                       /\ WordBoundary(s, p + Len(rule.text))}

\* what the rule captures: the text before the first occurrence, trimmed
TrimmedCapture(rule, s) ==
    LET ps == RuleOccurrences(rule, s)
    IN  Strip(Slice(s, 0, CHOOSE p \in ps : \A q \in ps : p <= q))

\* the rules that match with a non-empty trimmed capture, by index
YieldingRules(rules, s) ==
    {k \in 1..Len(rules) : /\ RuleOccurrences(rules[k], s) # {}
                           /\ TrimmedCapture(rules[k], s) # <<>>}

C17_FirstYieldingRuleDecides ==
    NamesDone =>
        LET ys == YieldingRules(config.movie_name_rules, result.cleaned_filename)
        IN  ys # {} =>
                result.movie_name =
                    TrimmedCapture(config.movie_name_rules[CHOOSE k \in ys : \A j \in ys : k <= j],
                                   result.cleaned_filename)

\* the first rule matched with an empty capture, the second rule gave the
\* name, and the name still holds what refinement would have removed
C17_WitnessSecondRuleAfterEmptyCapture ==
    /\ NamesDone
    /\ config = TwoRuleConfig
    /\ RuleOccurrences(TwoRules[1], result.cleaned_filename) # {}
    /\ TrimmedCapture(TwoRules[1], result.cleaned_filename) = <<>>
    /\ YieldingRules(TwoRules, result.cleaned_filename) = {2}
    /\ result.movie_name = TrimmedCapture(TwoRules[2], result.cleaned_filename)
    /\ RefinedName(result.movie_name, config) # result.movie_name


(***************************************************************************)
(* C18: when no movie-name rule matched and refinement reduces the cleaned *)
(* filename to the empty string, the movie name returned is exactly the    *)
(* cleaned filename, unmodified.                                           *)
(***************************************************************************)
C18_FallbackIsCleanedFilename ==
    ( /\ NamesDone
      /\ YieldingRules(config.movie_name_rules, result.cleaned_filename) = {}
      /\ RefinedName(result.cleaned_filename, config) = <<>> )
        => result.movie_name = result.cleaned_filename

\* a cleaned filename of a technical token, a year and a symbol, all of
\* which refinement removes, returned whole
C18_WitnessAllRefinedAway ==
    /\ NamesDone
    /\ config = TwoRuleConfig
    /\ filename = HD \o <<".">> \o Y1900 \o <<".", "&">>
    /\ NameByRules(config.movie_name_rules, result.cleaned_filename) = None
    /\ RefinedName(result.cleaned_filename, config) = <<>>
    /\ result.movie_name = HD \o <<" ">> \o Y1900 \o <<" ", "&">>

(***************************************************************************)
(* C19: on the refinement path (no rule matched, refined result not        *)
(* empty) the movie name has no whitespace-delimited token that is a       *)
(* 4-digit (19|20)dd year, however many such tokens the cleaned filename   *)
(* holds and however they are arranged.                                    *)
(***************************************************************************)
IsYearToken(w) == Len(w) = 4 /\ YearDigitsAt(w, 0)

C19_NoYearTokenAfterRefinement ==
    ( /\ NamesDone
      /\ NameByRules(config.movie_name_rules, result.cleaned_filename) = None
      /\ RefinedName(result.cleaned_filename, config) # <<>> )
        => \A k \in 1..Len(Words(result.movie_name)) :
               ~IsYearToken(Words(result.movie_name)[k])


(***************************************************************************)
(* C21: the extracted year depends only on the raw filename and the        *)
(* configured tech indicators: for a fixed raw filename it is the same     *)
(* whatever the cleanup rules, movie-name rules, technical and language    *)
(* identifiers and subtitle keywords are, and whatever the cleanup         *)
(* pipeline removes.                                                       *)
(***************************************************************************)
\* a configuration whose pipeline removes nothing but separators
PlainPipelineConfig ==
    [DefaultConfig EXCEPT !.cleanup_rules = <<>>, !.technical_identifiers = <<>>,
                          !.language_identifiers = <<>>, !.final_tech_patterns = <<>>,
                          !.subtitle_keywords = <<>>, !.common_subtitle_indicators = <<>>]

C21_YearIndependentOfPipeline ==
    (InfoDone /\ result # NoResult) =>
        /\ result.year = ExtractYearFromOriginal(filename, TechIndicators)
        /\ \A cfg \in {DefaultConfig, RuleConfig, PlainPipelineConfig} :
               LET other == ExtractMovieInfoOf(filename, cfg)
               IN  other # NoResult => other.year = result.year

\* a year was returned that the cleaned filename no longer yields, and the
\* pipeline that removes nothing gives another movie name with the same year
C21_WitnessCueRemovedByCleanup ==
    /\ InfoDone
    /\ result # NoResult
    /\ result.year # None
    /\ ExtractYearFromOriginal(CleanedFilename(filename, config), TechIndicators) # result.year
    /\ ExtractMovieInfoOf(filename, PlainPipelineConfig) # NoResult
    /\ ExtractMovieInfoOf(filename, PlainPipelineConfig).movie_name # result.movie_name


(***************************************************************************)
(* C22: the cleaned filename returned by _process_movie_name, and the      *)
(* movie name it returns on any path, contain no '.', '-' or '_', no run   *)
(* of two or more whitespace characters and no leading or trailing         *)
(* whitespace.                                                             *)
(***************************************************************************)
IsNormalized(s) ==
    /\ \A i \in 1..Len(s) : s[i] \notin {".", "-", "_"}
    /\ \A i \in 1..(Len(s) - 1) : ~(IsSpace(s[i]) /\ IsSpace(s[i + 1]))
    /\ s # <<>> => ~IsSpace(s[1]) /\ ~IsSpace(s[Len(s)])

C22_NamesAreNormalized ==
    NamesDone => IsNormalized(result.cleaned_filename) /\ IsNormalized(result.movie_name)

\* a refined name: the filename had separators, and removing the technical
\* token from the cleaned filename left whitespace for the later steps to remove
C22_WitnessRefinedAcrossGap ==
    /\ NamesDone
    /\ IsRefinedName(filename, config)
    /\ \E i \in 1..Len(filename) : IsSeparator(filename[i])
    /\ ~IsNormalized(StripTechnical(result.cleaned_filename, config))
    /\ result.movie_name # result.cleaned_filename


(***************************************************************************)
(* C23: matching of the configured tech indicators ignores letter case in  *)
(* both directions, in subtitle-segment classification and in year         *)
(* extraction: the outcome is the same when the filename is written in     *)
(* lower case and when the indicators are written in lower case in the     *)
(* configuration.                                                          *)
(***************************************************************************)
\* the configuration with its tech indicators written in lower case
LowerIndicators(cfg) ==
    [cfg EXCEPT !.tech_indicators = [k \in 1..Len(@) |-> Lower(@[k])]]

C23_TechMatchIgnoresCase ==
    /\ SegmentsDone =>
           \A f \in {filename, Lower(filename)} :
               \A cfg \in {config, LowerIndicators(config)} :
                   /\ FlaggedIndexes(f, cfg) = FlaggedIndexes(filename, config)
                   /\ Len(result.items) = Cardinality(FlaggedIndexes(f, cfg))
    /\ YearDone =>
           \A f \in {filename, Lower(filename)} :
               \A cfg \in {config, LowerIndicators(config)} :
                   ExtractYearFromOriginal(f, cfg.tech_indicators) = year


(***************************************************************************)
(* C24: the positional rule fires only for a segment at an index of at     *)
(* least half the segment count, in a filename of more than 3 segments,    *)
(* and only if a neighbouring segment, one other than the segment being    *)
(* classified and at most two places before or after it, contains a        *)
(* 4-digit year or a tech indicator.                                       *)
(***************************************************************************)
\* the segment at the 0-based index was flagged and no rule but the
\* positional one holds for it
FlaggedByPositionOnly(parts, index, cfg) ==
    LET segment == parts[index + 1]
        found   == KeywordsIn(segment, cfg)
    IN  /\ IsFlagged(parts, index, cfg)
        /\ LET matched == cfg.subtitle_keywords[CHOOSE k \in found : \A j \in found : k <= j]
           IN  /\ segment # matched
               /\ ~HasTech(segment, cfg)
               /\ Cardinality(found) < 2
               /\ ~( /\ \E c \in 1..Len(cfg.common_subtitle_indicators) :
                            cfg.common_subtitle_indicators[c] = matched
                     /\ Len(segment) > Len(matched) )

C24_PositionalRuleNeedsNeighbour ==
    SegmentsDone =>
        LET parts == Segments(filename)
        IN  \A index \in 0..(Len(parts) - 1) :
                FlaggedByPositionOnly(parts, index, config) =>
                    /\ Len(result.items) >= 1
                    /\ index >= Len(parts) \div 2
                    /\ Len(parts) > 3
                    /\ \E j \in Neighbours(parts, index) :
                           HasYearDigits(parts[j]) \/ HasTech(parts[j], config)


(***************************************************************************)
(* bypass_douban_verification(target_url, max_retries), under lru_cache.   *)
(* The server is the environment: what a GET and a POST bring back is      *)
(* chosen freely.  log holds the events of all calls:                      *)
(*   [ev |-> "CALL"]                 the function body is entered          *)
(*   [ev |-> "GET",  res |-> page]   session.get and what came of it       *)
(*   [ev |-> "POW"]                  calculate_nonce returned              *)
(*   [ev |-> "POST", res |-> resp]   session.post and what came of it      *)
(***************************************************************************)
MaxRetries == 2

MaxCalls == 2

\* values of the hidden field 'red' and of verify_resp.url
Urls == { <<"t">>, <<"t", "/">>, <<"u">> }

\* what session.get brings: an exception, a page without the form, a
\* verification page with its four parameters, one with a parameter missing
GetResults ==
    { [kind |-> "exception"], [kind |-> "page"], [kind |-> "incomplete"] }
    \cup [kind : {"verification"}, red : Urls]

\* what session.post brings: an exception or a response at some URL
PostResults == { [kind |-> "exception"] } \cup [kind : {"response"}, url : Urls]

\* s.rstrip('/')
RStripSlash(s) == SubSeq(s, 1, Len(s) - TrailCount(s, {"/"}))

\* verify_resp.url.rstrip('/') == red_val.rstrip('/')
IsRedirected(resp, red) ==
    resp.kind = "response" /\ RStripSlash(resp.url) = RStripSlash(red)

\* the 'red' of the verification page of the attempt under way
CurrentRed == log[Len(log) - 1].res.red

\* the position after a GET whose result is res: return, go on to the proof
\* of work, or, the exception caught, back to the head of the loop
AfterGetUncaught(res) ==
    IF res.kind = "page" THEN "done"
    ELSE IF res.kind = "verification" THEN "pow"
    ELSE "raised"

AfterGet(res) ==
    IF res.kind = "page" THEN "done"
    ELSE IF res.kind = "verification" THEN "pow"
    ELSE "loop"

NumCalls == Cardinality({i \in 1..Len(log) : log[i].ev = "CALL"})

InitVerify ==
    /\ config_file = LoadedSource
    /\ config = DefaultConfig
    /\ filename = <<>>
    /\ op = "none"
    /\ year = None
    /\ result = NoResult
    /\ NoScan
    /\ NoPow
    /\ max_retries \in 0..MaxRetries
    /\ attempt = 0
    /\ pc = "idle"
    /\ log = <<>>
    /\ outcome = [kind |-> "None"]
    /\ cache = [kind |-> "None"]

\* bypass_douban_verification(target_url, max_retries) is called: lru_cache
\* returns the value it holds, or the body is entered
Call ==
    /\ pc \in {"idle", "done"}
    /\ NumCalls < MaxCalls
    /\ IF cache.kind # "None"
       THEN /\ outcome' = cache
            /\ pc' = "done"
            /\ UNCHANGED <<attempt, log>>
       ELSE /\ outcome' = [kind |-> "None"]
            /\ pc' = "loop"
            /\ attempt' = 0
            /\ log' = Append(log, [ev |-> "CALL"])
    /\ UNCHANGED <<max_retries, cache>>
    /\ UNCHANGED <<config_file, config, filename, op, year, result, sort_vars, pow_vars>>

\* one iteration of the loop up to the return of line 88, the call of
\* calculate_nonce or the except block
Get ==
    /\ pc = "loop"
    /\ attempt < max_retries
    /\ attempt' = attempt + 1
    /\ \E res \in GetResults :
           /\ log' = Append(log, [ev |-> "GET", res |-> res])
           /\ pc' = AfterGet(res)
           /\ outcome' = IF AfterGet(res) = "done"
                         THEN [kind |-> "response", of |-> Len(log) + 1]
                         ELSE IF AfterGet(res) = "raised"
                         THEN [kind |-> "exception"]
                         ELSE outcome
           /\ cache' = IF AfterGet(res) = "done"
                       THEN [kind |-> "response", of |-> Len(log) + 1]
                       ELSE cache
    /\ UNCHANGED max_retries
    /\ UNCHANGED <<config_file, config, filename, op, year, result, sort_vars, pow_vars>>

\* calculate_nonce(cha_val, difficulty=4) returns
Solve ==
    /\ pc = "pow"
    /\ log' = Append(log, [ev |-> "POW"])
    /\ pc' = "post"
    /\ UNCHANGED <<max_retries, attempt, outcome, cache>>
    /\ UNCHANGED <<config_file, config, filename, op, year, result, sort_vars, pow_vars>>

\* the form is submitted: return of line 127, or the next iteration
Post ==
    /\ pc = "post"
    /\ \E res \in PostResults :
           /\ log' = Append(log, [ev |-> "POST", res |-> res])
           /\ IF IsRedirected(res, CurrentRed)
              THEN /\ pc' = "done"
                   /\ outcome' = [kind |-> "response", of |-> Len(log) + 1]
                   /\ cache' = [kind |-> "response", of |-> Len(log) + 1]
              ELSE /\ pc' = "loop"
                   /\ UNCHANGED <<outcome, cache>>
    /\ UNCHANGED <<max_retries, attempt>>
    /\ UNCHANGED <<config_file, config, filename, op, year, result, sort_vars, pow_vars>>

\* range(max_retries) is exhausted: raise RuntimeError
GiveUp ==
    /\ pc = "loop"
    /\ attempt >= max_retries
    /\ pc' = "done"
    /\ outcome' = [kind |-> "RuntimeError"]
    /\ UNCHANGED <<max_retries, attempt, log, cache>>
    /\ UNCHANGED <<config_file, config, filename, op, year, result, sort_vars, pow_vars>>

NextVerify == Call \/ Get \/ Solve \/ Post \/ GiveUp

SpecVerify == InitVerify /\ [][NextVerify]_vars

(***************************************************************************)
(* C25: a call makes at most max_retries attempts, each with one GET and   *)
(* at most one POST; it returns the first response that is not a           *)
(* verification page, with no proof of work solved for it, or the first    *)
(* POST response redirected to the expected target; when no attempt        *)
(* succeeds it raises RuntimeError after exactly max_retries attempts; an  *)
(* exception inside an attempt uses up that attempt and does not end the   *)
(* loop.                                                                   *)
(***************************************************************************)
\* the index of the CALL event of the call that the event at index i is of
CallOf(i) == CHOOSE c \in 1..i : log[c].ev = "CALL" /\ \A k \in (c + 1)..i : log[k].ev # "CALL"

\* the event at index i ends its call with a response
IsSuccess(i) ==
    \/ log[i].ev = "GET" /\ log[i].res.kind = "page"
    \/ /\ log[i].ev = "POST"
       /\ log[i].res.kind = "response"
       /\ \E g \in CallOf(i)..i :
              /\ log[g].ev = "GET"
              /\ \A k \in (g + 1)..i : log[k].ev # "GET"
              /\ log[g].res.kind = "verification"
              /\ RStripSlash(log[i].res.url) = RStripSlash(log[g].res.red)

\* the indexes of the events of the call under way or last made
CurrentEvents == IF log = <<>> THEN {} ELSE CallOf(Len(log))..Len(log)

EventsOf(kind) == {i \in CurrentEvents : log[i].ev = kind}

C25_BoundedAttemptsFirstSuccess ==
    /\ Cardinality(EventsOf("GET")) = attempt
    /\ attempt <= max_retries
    /\ \A p, q \in EventsOf("POST") : p < q => \E g \in EventsOf("GET") : p < g /\ g < q
    /\ \A p \in EventsOf("POST") : \E g \in EventsOf("GET") : g < p
    /\ outcome.kind \in {"None", "response", "RuntimeError"}
    /\ pc = "done" =>
           \/ /\ outcome.kind = "response"
              /\ IsSuccess(outcome.of)
              /\ \A k \in CallOf(outcome.of)..(outcome.of - 1) : ~IsSuccess(k)
              /\ log[outcome.of].ev = "GET" => log[outcome.of - 1].ev # "POW"
           \/ /\ outcome.kind = "RuntimeError"
              /\ Cardinality(EventsOf("GET")) = max_retries
              /\ \A k \in CurrentEvents : ~IsSuccess(k)

\* the first attempt ended in an exception, the second went through the
\* proof of work, and its POST response, at the target with a trailing
\* slash, was returned
C25_WitnessSecondAttemptVerified ==
    /\ pc = "done"
    /\ max_retries = 2
    /\ Len(log) = 5
    /\ log[2].ev = "GET" /\ log[2].res.kind = "exception"
    /\ log[3].ev = "GET" /\ log[3].res.kind = "verification"
    /\ log[4].ev = "POW"
    /\ log[5].ev = "POST" /\ log[5].res.kind = "response" /\ log[5].res.url # log[3].res.red
    /\ outcome = [kind |-> "response", of |-> 5]


(***************************************************************************)
(* calculate_nonce(challenge, difficulty).  SHA-512 is not computed: the   *)
(* challenge is given by the number of leading '0' characters of the hex   *)
(* digest of f"{challenge}{nonce}" for each nonce, chosen freely; beyond   *)
(* MaxNonce the search is not followed.                                    *)
(***************************************************************************)
MaxNonce == 11

MaxZeros == 1

\* the challenges: for each nonce the leading zeros of its digest
Challenges == [1..MaxNonce -> 0..MaxZeros]

\* the difficulties, one of them beyond what any digest of the model has
Difficulties == 0..(MaxZeros + 1)

DigitChar(d) == CHOOSE c \in Digits : DigitVal(c) = d

RECURSIVE ToDecimal(_)
\* str(n) and the nonce inside f"{challenge}{nonce}", for n >= 0
ToDecimal(n) ==
    IF n < 10 THEN <<DigitChar(n)>>
    ELSE Append(ToDecimal(n \div 10), DigitChar(n % 10))

\* hash_hex.startswith(target_prefix) for data = f"{challenge}{nonce}", data
\* being the decimal string that follows the challenge
StartsWithZeros(cha, data, d) == cha[IntOf(data)] >= d

\* nonce += 2
NextNonceSkipping(n) == n + 2

\* nonce += 1
NextNonce(n) == n + 1

InitNonce ==
    /\ config_file = LoadedSource
    /\ config = DefaultConfig
    /\ filename = <<>>
    /\ op = "none"
    /\ year = None
    /\ result = NoResult
    /\ NoScan
    /\ max_retries = 0
    /\ attempt = 0
    /\ log = <<>>
    /\ cache = [kind |-> "None"]
    /\ challenge \in Challenges
    /\ difficulty \in Difficulties
    /\ nonce = 1
    /\ pc = "search"
    /\ outcome = [kind |-> "None"]

\* one pass of the while loop
Try ==
    /\ pc = "search"
    /\ nonce <= MaxNonce
    /\ IF StartsWithZeros(challenge, ToDecimal(nonce), difficulty)
       THEN /\ outcome' = [kind |-> "str", text |-> ToDecimal(nonce)]
            /\ pc' = "done"
            /\ UNCHANGED nonce
       ELSE /\ nonce' = NextNonce(nonce)
            /\ UNCHANGED <<outcome, pc>>
    /\ UNCHANGED <<challenge, difficulty, max_retries, attempt, log, cache>>
    /\ UNCHANGED <<config_file, config, filename, op, year, result, sort_vars>>

NextNonceSearch == Try

SpecNonce == InitNonce /\ [][NextNonceSearch]_vars

(***************************************************************************)
(* C26: calculate_nonce returns only a nonce n >= 1 for which the digest   *)
(* of the challenge followed by the decimal n starts with 'difficulty'     *)
(* zeros, and n is the smallest positive integer with that property; the   *)
(* loop ends only by finding such a nonce.                                 *)
(***************************************************************************)
\* the digest for the nonce n starts with the zeros asked for
IsSolution(n) == challenge[n] >= difficulty

C26_SmallestNonceReturned ==
    /\ pc = "done" =>
           /\ outcome.kind = "str"
           /\ LET n == IntOf(outcome.text)
              IN  /\ ToDecimal(n) = outcome.text
                  /\ n >= 1
                  /\ IsSolution(n)
                  /\ \A k \in 1..(n - 1) : ~IsSolution(k)
    /\ pc = "search" => \A k \in 1..(nonce - 1) : k <= MaxNonce => ~IsSolution(k)

\* ten candidates were tried, the tenth was returned as '10'
C26_WitnessTenthCandidate ==
    /\ pc = "done"
    /\ difficulty = 1
    /\ outcome = [kind |-> "str", text |-> <<"1", "0">>]


(***************************************************************************)
(* C27: an in-range candidate of the year pattern is discarded as title    *)
(* content if and only if the trimmed text before it has more than 2       *)
(* characters, the trimmed text after it has more than 2 characters, the   *)
(* last '.'-delimited word before it and the first one after it have more  *)
(* than 1 character each, and that first word after it, upper-cased,       *)
(* contains no tech indicator; every other in-range candidate is kept, and *)
(* of the kept candidates the one that starts last is returned.            *)
(***************************************************************************)
\* the part of s after its last '.', and the part before its first '.'
AfterLastDot(s) ==
    LET dots == {i \in 1..Len(s) : s[i] = "."}
    IN  IF dots = {} THEN s
        ELSE SubSeq(s, (CHOOSE i \in dots : \A j \in dots : j <= i) + 1, Len(s))

BeforeFirstDot(s) ==
    LET dots == {i \in 1..Len(s) : s[i] = "."}
    IN  IF dots = {} THEN s
        ELSE SubSeq(s, 1, (CHOOSE i \in dots : \A j \in dots : i <= j) - 1)

\* the four digits of the candidate
CandidateDigits(s, m) == SelectSeq(Slice(s, m.start, m.end), IsDigit)

InRangeCandidates(s) ==
    {k \in 1..Len(YearMatches(s)) :
        /\ MinYear <= DecimalValue(CandidateDigits(s, YearMatches(s)[k]), 0)
        /\ DecimalValue(CandidateDigits(s, YearMatches(s)[k]), 0) <= MaxYear}

IsTitleContent(s, m, tech) ==
    LET before == Strip(Slice(s, 0, m.start))
        after  == Strip(Slice(s, m.end, Len(s)))
    IN  /\ Len(before) > 2
        /\ Len(after) > 2
        /\ Len(AfterLastDot(before)) > 1
        /\ Len(BeforeFirstDot(after)) > 1
        /\ \A k \in 1..Len(tech) : ~Contains(Upper(BeforeFirstDot(after)), tech[k])

KeptCandidates(s, tech) ==
    {k \in InRangeCandidates(s) : ~IsTitleContent(s, YearMatches(s)[k], tech)}

C28_UnflaggedSegmentsSurvive ==
    NamesDone =>
        \A i \in 1..Len(Segments(filename)) :
            i \notin FlaggedIndexes(filename, config) =>
                Contains(result.after_subtitle, Segments(filename)[i])


(***************************************************************************)
(* The deprecated two-step interface: _cleanup_filename and                *)
(* _extract_movie_name_from_cleaned each run _process_movie_name and keep  *)
(* one half of its pair.                                                   *)
(***************************************************************************)
CleanupFilename(s, cfg) == ProcessMovieName(s, cfg).cleaned_filename

ExtractMovieNameFromCleaned(cleaned, cfg) == ProcessMovieName(cleaned, cfg).movie_name

\* the caller's sequence of test_clean_filename: clean, then extract
TwoStepName(s, cfg) == ExtractMovieNameFromCleaned(CleanupFilename(s, cfg), cfg)

InitTwoStep ==
    /\ config_file = LoadedSource
    /\ config = DefaultConfig
    /\ filename \in FileNames
    /\ op = "none"
    /\ year = None
    /\ result = NoResult
    /\ NoScan
    /\ NoNet
    /\ NoPow

\* cleaned_name = _cleanup_filename(filename);
\* movie_name = _extract_movie_name_from_cleaned(cleaned_name)
TwoStep ==
    /\ op = "none"
    /\ op' = "_extract_movie_name_from_cleaned"
    /\ result' = [ kind |-> "movie_name", movie_name |-> TwoStepName(filename, config) ]
    /\ UNCHANGED <<config_file, config, filename, year>>
    /\ UNCHANGED sort_vars
    /\ UNCHANGED <<net_vars, pow_vars>>

NextTwoStep == TwoStep

SpecTwoStep == InitTwoStep /\ [][NextTwoStep]_vars

TwoStepDone == op = "_extract_movie_name_from_cleaned"

(***************************************************************************)
(* C29: the deprecated two-step interface agrees with the unified one:     *)
(* for every filename f, _extract_movie_name_from_cleaned(                 *)
(* _cleanup_filename(f)) equals the movie name that _process_movie_name(f) *)
(* returns.                                                                *)
(***************************************************************************)
C29_TwoStepAgreesWithUnified ==
    TwoStepDone => result.movie_name = ProcessMovieName(filename, config).movie_name


(***************************************************************************)
(* C30: whenever the cleaned filename is non-empty, the movie name that    *)
(* _process_movie_name returns is non-empty as well, so extract_movie_info *)
(* skips a file exactly when its cleaned filename is empty: the skip       *)
(* branch for an empty movie name is never taken.                          *)
(***************************************************************************)
C30_SkippedIffCleanedEmpty ==
    /\ NamesDone => (result.cleaned_filename # <<>> => result.movie_name # <<>>)
    /\ InfoDone => (result = NoResult <=> CleanedFilename(filename, config) = <<>>)

\* a non-empty cleaned filename that no rule matches and refinement empties
C30_WitnessNameOnlyByFallback ==
    /\ NamesDone
    /\ result.cleaned_filename # <<>>
    /\ result.movie_name = result.cleaned_filename
    /\ NameByRules(config.movie_name_rules, result.cleaned_filename) = None
    /\ RefinedName(result.cleaned_filename, config) = <<>>

=============================================================================
